---- MODULE Spec2Model ----
(***************************************************************************)
(* Model of trivia-live: the Firestore documents of one room (the room,    *)
(* its players, submissions, wagers and final answers), the player writes  *)
(* of src/lib/room.ts (setDoc with merge), the host calls (patchRoomIfHost *)
(* and the two runTransaction judgments), the room page (the host's and a  *)
(* player's buttons, acting on the snapshots the page last received), the  *)
(* end of the game with its sudden death, createRoom and the two question  *)
(* routes.  A transaction is modelled read by read: every                  *)
(* tx.get is a step, writes are buffered, and the commit applies them only *)
(* when no document the transaction read was written in between            *)
(* (Firestore's optimistic concurrency); otherwise the update function     *)
(* runs again.                                                             *)
(***************************************************************************)
EXTENDS Integers, Sequences, FiniteSets, TLC

VARIABLES
    room,          \* rooms/{roomId}
    players,       \* rooms/{roomId}/players/{playerId}
    subs,          \* rooms/{roomId}/submissions/{questionIndex_playerId}
    wagers,        \* rooms/{roomId}/wagers/{playerId}
    finalAnswers,  \* rooms/{roomId}/finalAnswers/{playerId}
    calls,         \* host calls in flight: arguments, position, reads, outcome
    playerView,    \* the room a player's page holds (useState<Room | null>)
    hostView,      \* the room the host's page holds
    playerPage,    \* a player's page: its player record (me), joined flag, wager field
    hostPage,      \* the host's page: the players, final answers and sudden-death
                   \* submissions its subscriptions last delivered
    start,         \* the ledger when the behaviour began (history)
    nWrites,       \* player writes issued so far
    nCalls         \* host calls issued so far

vars == <<room, players, subs, wagers, finalAnswers, calls, playerView, hostView, playerPage,
          hostPage, start, nWrites, nCalls>>
pages == <<playerView, hostView, playerPage, hostPage>>
store == <<room, players, subs, wagers, finalAnswers>>

----------------------------------------------------------------------------
(* Bounds of the model *)

MaxWrites == 4       \* player writes per behaviour of Spec
MaxHostCalls == 2    \* host calls per behaviour of Spec
MaxAttempts == 2     \* runs of a transaction's update function before it gives up
MaxInitScore == 5    \* largest score a player holds when SpecJudge begins
TiedScore == 1       \* the score the two players share when SpecSudden begins
MaxTicks == 2        \* thirty-second steps the clock of the host's browser takes

(* Program constants *)

WagerCap == 9999
AnswerMax == 280
SuddenDeathIndex == 999
FinalIndex == 9
NumSlots == 10
TitleMax == 60
TimerSeconds == 30

Players == {"p1", "p2", "p3"}
\* the two players most specifications seat; p3 joins in SpecTie only
SpecPlayers == {"p1", "p2"}
Secrets == {"s1", "s2"}
Slots == {1, 2}
MainIndices == 0 .. FinalIndex
QuestionIndices == MainIndices \cup {SuddenDeathIndex}
SubIds == QuestionIndices \X Players

\* raw text typed by a player, before safeTrim
AnswerInputs == { <<"a">>, <<" ", "b", " ">> }
\* raw wagers in half units (3 stands for 1.5), before Math.floor and clamp
WagerInputs == { -3, 5, 2 * WagerCap, 2 * WagerCap + 3 }

----------------------------------------------------------------------------
(* Pure helpers *)

Min(a, b) == IF a < b THEN a ELSE b
Max(a, b) == IF a > b THEN a ELSE b

clamp(n, lo, hi) == Max(lo, Min(hi, n))

\* Math.floor of a number given in half units
MathFloor(h) == h \div 2

RECURSIVE TrimLeft(_)
TrimLeft(s) == IF s # << >> /\ Head(s) = " " THEN TrimLeft(Tail(s)) ELSE s

RECURSIVE TrimRight(_)
TrimRight(s) ==
    IF s # << >> /\ s[Len(s)] = " " THEN TrimRight(SubSeq(s, 1, Len(s) - 1)) ELSE s

safeTrim(s, max) ==
    LET t == TrimRight(TrimLeft(s))
    IN  IF Len(t) > max THEN SubSeq(t, 1, max) ELSE t

JudgedOf(correct) == IF correct THEN "true" ELSE "false"

----------------------------------------------------------------------------
(* Documents *)

\* one slot of room.questions; a text is a sequence of characters, as an answer is
Slot(i, question, answer, category) ==
    [id |-> i, question |-> question, answer |-> answer, category |-> category]

\* defaultQuestions done wrong: Array.from({ length: 9 }, ...)
defaultQuestionsNine ==
    [i \in 1 .. NumSlots - 1 |-> Slot(i, << >>, << >>, << >>)]

\* Array.from({ length: 10 }, ...): ten empty slots, the last one the Final Jeopardy
defaultQuestions ==
    [i \in 1 .. NumSlots |->
        Slot(i, IF i - 1 = FinalIndex THEN <<"Final Jeopardy (host will set)">> ELSE << >>,
             << >>, << >>)]

\* room.suddenDeath before the host starts a sudden death: the field is absent, and
\* room.suddenDeath?.active and the like read as undefined
NoSuddenDeath ==
    [exists |-> FALSE, active |-> FALSE, question |-> Slot(0, << >>, << >>, << >>),
     eligiblePlayerIds |-> {}, revealed |-> FALSE, acceptingAnswers |-> FALSE]

\* revealedAt is in seconds, 0 when the field is absent
NoRoom ==
    [exists |-> FALSE, hostSecret |-> "", status |-> "lobby", title |-> << >>,
     questions |-> << >>,
     currentIndex |-> 0, revealed |-> FALSE, acceptingAnswers |-> FALSE, revealedAt |-> 0,
     final |-> [wagersOpen |-> FALSE, answersOpen |-> FALSE, revealedAnswer |-> FALSE],
     suddenDeath |-> NoSuddenDeath]

\* title || "Trivia Night"
DefaultTitle == <<"Trivia Night">>

\* the object createRoom writes: const room: Room = { ... }
createRoomDoc(secret, title) ==
    [exists |-> TRUE, hostSecret |-> secret, status |-> "lobby",
     title |-> safeTrim(IF title = << >> THEN DefaultTitle ELSE title, TitleMax),
     questions |-> defaultQuestions,
     currentIndex |-> 0, revealed |-> FALSE, acceptingAnswers |-> FALSE, revealedAt |-> 0,
     final |-> [wagersOpen |-> FALSE, answersOpen |-> FALSE, revealedAnswer |-> FALSE],
     suddenDeath |-> NoSuddenDeath]

\* the room createRoom leaves when the title field of the home page is empty
NewRoom(secret) == createRoomDoc(secret, << >>)

NoPlayer == [exists |-> FALSE, score |-> 0]

\* a player's page before anything arrived or was typed: me = null, joined = false,
\* wager = 0 (the wager field is kept in halves, as the wager inputs are)
NoPage == [me |-> NoPlayer, joined |-> FALSE, wager |-> 0]
NoSub == [exists |-> FALSE, playerId |-> "", questionIndex |-> 0, answer |-> << >>,
          createdAt |-> 0, judged |-> "null", pointsDelta |-> 0]
NoWager == [exists |-> FALSE, wager |-> 0]
NoFinal == [exists |-> FALSE, answer |-> << >>, judged |-> "null", pointsDelta |-> 0]

\* the host's page before its subscriptions delivered anything: players = [],
\* finalAnswers = [], suddenDeathSubs = []; now is what Date.now() gives on the
\* page, in seconds
NoHostPage ==
    [players |-> [p \in Players |-> NoPlayer],
     finalAnswers |-> [p \in Players |-> NoFinal],
     suddenDeathSubs |-> [p \in Players |-> NoSub],
     now |-> 1]

RoomKey == <<"room", -1, "">>
PlayerKey(p) == <<"player", -1, p>>
SubKey(id) == <<"sub", id[1], id[2]>>
WagerKey(p) == <<"wager", -1, p>>
FinalKey(p) == <<"final", -1, p>>

----------------------------------------------------------------------------
(* Host calls *)

\* the Partial<Room> objects of the host's Reveal and Close-answers buttons
\* the patch of Reveal + Open Answers when new Date() is t
RevealPatchAt(t) ==
    [status |-> "question", revealed |-> TRUE, acceptingAnswers |-> TRUE, revealedAt |-> t]
RevealPatch == RevealPatchAt(hostPage.now)
CloseAnswersPatch == [acceptingAnswers |-> FALSE]
HostPatches == {RevealPatch, CloseAnswersPatch}
NoPatch == CloseAnswersPatch

IdleCall ==
    [op |-> "none", pc |-> "idle", secret |-> "", sub |-> <<0, "">>, player |-> "",
     correct |-> FALSE, patch |-> NoPatch, attempt |-> 0, stale |-> FALSE, reads |-> {},
     plan |-> "none",
     rdSub |-> NoSub, rdAns |-> NoFinal, rdWager |-> NoWager, rdPlayer |-> NoPlayer,
     result |-> "none"]

\* a slot can take a new call; the slots are interchangeable, so a call takes the
\* lowest free one
Free(c) ==
    /\ calls[c].pc \in {"idle", "done"}
    /\ \A d \in Slots : d < c => calls[d].pc \notin {"idle", "done"}

\* a write to the documents `keys` outdates every running transaction that read one
Invalidate(cs, keys, self) ==
    [c \in Slots |->
        IF c # self /\ cs[c].op \in {"judgeSubmission", "judgeFinal"}
           /\ cs[c].pc \notin {"idle", "done"} /\ cs[c].reads \cap keys # {}
        THEN [cs[c] EXCEPT !.stale = TRUE]
        ELSE cs[c]]

\* the call returns or throws: what it read is dropped, its outcome is kept
Finish(call, res) ==
    [IdleCall EXCEPT !.op = call.op, !.pc = "done", !.attempt = call.attempt,
                     !.result = res]

\* the update function runs again from its first line
Rerun(call) ==
    [call EXCEPT !.pc = "getRoom", !.attempt = @ + 1, !.reads = {}, !.stale = FALSE,
                 !.plan = "none",
                 !.rdSub = NoSub, !.rdAns = NoFinal, !.rdWager = NoWager,
                 !.rdPlayer = NoPlayer]

----------------------------------------------------------------------------
(* Player writes: one setDoc(ref, data, {merge: true}) each *)

joinDoc == [exists |-> TRUE, score |-> 0]

joinAsPlayer(p) ==
    /\ nWrites < MaxWrites
    /\ nWrites' = nWrites + 1
    /\ players' = [players EXCEPT ![p] = joinDoc]
    /\ calls' = Invalidate(calls, {PlayerKey(p)}, 0)
    /\ UNCHANGED <<room, subs, wagers, finalAnswers, pages, start, nCalls>>

\* every field of the object literal is written, judged and pointsDelta included;
\* createdAt leaves the client as the serverTimestamp() placeholder
submitAnswerDoc(p, q, text) ==
    [exists |-> TRUE, playerId |-> p, questionIndex |-> q,
     answer |-> safeTrim(text, AnswerMax), createdAt |-> 0, judged |-> "null",
     pointsDelta |-> 0]

\* createdAt: serverTimestamp() is the server's clock at the commit.  The code only
\* ever orders the submissions by it, so the clock is read as one tick after the
\* latest createdAt in the collection
serverTimestamp ==
    1 + CHOOSE t \in {subs[i].createdAt : i \in SubIds} :
            \A i \in SubIds : subs[i].createdAt <= t

\* submissionId done wrong: addDoc(collection) gives every submission a new document
\* (the first one that is not there yet)
submissionIdFresh(p, q) ==
    IF \E id \in SubIds : ~subs[id].exists
    THEN CHOOSE id \in SubIds : ~subs[id].exists
    ELSE <<q, p>>

\* const id = `${questionIndex}_${playerId}`
submissionId(p, q) == <<q, p>>

submitAnswer(p, q, text) ==
    /\ nWrites < MaxWrites
    /\ nWrites' = nWrites + 1
    /\ subs' = [subs EXCEPT ![submissionId(p, q)] =
                   [submitAnswerDoc(p, q, text) EXCEPT !.createdAt = serverTimestamp]]
    /\ calls' = Invalidate(calls, {SubKey(submissionId(p, q))}, 0)
    /\ UNCHANGED <<room, players, wagers, finalAnswers, pages, start, nCalls>>

submitWagerDoc(h) == [exists |-> TRUE, wager |-> clamp(MathFloor(h), 0, WagerCap)]

submitWager(p, h) ==
    /\ nWrites < MaxWrites
    /\ nWrites' = nWrites + 1
    /\ wagers' = [wagers EXCEPT ![p] = submitWagerDoc(h)]
    /\ calls' = Invalidate(calls, {WagerKey(p)}, 0)
    /\ UNCHANGED <<room, players, subs, finalAnswers, pages, start, nCalls>>

submitFinalAnswerDoc(text) ==
    [exists |-> TRUE, answer |-> safeTrim(text, AnswerMax), judged |-> "null",
     pointsDelta |-> 0]

\* finalAnswerId done wrong: one document for the whole room
finalAnswerIdShared(p) == "p1"

\* doc(db, "rooms", roomId, "finalAnswers", playerId)
finalAnswerId(p) == p

submitFinalAnswer(p, text) ==
    /\ nWrites < MaxWrites
    /\ nWrites' = nWrites + 1
    /\ finalAnswers' = [finalAnswers EXCEPT ![finalAnswerId(p)] = submitFinalAnswerDoc(text)]
    /\ calls' = Invalidate(calls, {FinalKey(finalAnswerId(p))}, 0)
    /\ UNCHANGED <<room, players, subs, wagers, pages, start, nCalls>>

----------------------------------------------------------------------------
(* createRoom: one setDoc(ref, room) without merge, the whole document is written *)

createRoom(secret, title) ==
    /\ room' = createRoomDoc(secret, title)
    /\ calls' = Invalidate(calls, {RoomKey}, 0)
    /\ UNCHANGED <<players, subs, wagers, finalAnswers, pages, start, nWrites, nCalls>>

----------------------------------------------------------------------------
(* patchRoomIfHost: getDoc, the two checks, then updateDoc (no transaction) *)

\* RoomMissing done wrong: the room is taken to be there
RoomMissingNever(r) == FALSE

\* if (!room) throw new Error("Room not found")
RoomMissing(r) == ~r.exists

\* NotHost done wrong: the secret is never compared
NotHostNever(r, secret) == FALSE

NotHost(r, secret) == r.hostSecret # secret

\* ApplyPatch done wrong: acceptingAnswers is flipped, not set
ApplyPatchFlipping(r, patch) ==
    [f \in DOMAIN r |->
        IF f \notin DOMAIN patch THEN r[f]
        ELSE IF f = "acceptingAnswers" THEN ~r[f] ELSE patch[f]]

\* updateDoc(ref, patch): the fields of the patch are set, the others are kept
ApplyPatch(r, patch) ==
    [f \in DOMAIN r |-> IF f \in DOMAIN patch THEN patch[f] ELSE r[f]]

StartPatch(c, secret, patch) ==
    /\ Free(c)
    /\ nCalls < MaxHostCalls
    /\ nCalls' = nCalls + 1
    /\ calls' = [calls EXCEPT ![c] =
          [IdleCall EXCEPT !.op = "patchRoomIfHost", !.pc = "getDoc",
                           !.secret = secret, !.patch = patch]]
    /\ UNCHANGED <<store, pages, start, nWrites>>

PatchGetDoc(c) ==
    /\ calls[c].op = "patchRoomIfHost"
    /\ calls[c].pc = "getDoc"
    /\ calls' = [calls EXCEPT ![c] =
          IF RoomMissing(room) THEN Finish(@, "Room not found")
          ELSE IF NotHost(room, @.secret) THEN Finish(@, "Not host")
          ELSE [@ EXCEPT !.pc = "update"]]
    /\ UNCHANGED <<store, pages, start, nWrites, nCalls>>

\* updateDoc throws on a field whose value is undefined, and writes nothing; a patch
\* names such fields in undefinedFields
HasUndefined(patch) ==
    "undefinedFields" \in DOMAIN patch /\ patch.undefinedFields # {}

PatchUpdate(c) ==
    /\ calls[c].op = "patchRoomIfHost"
    /\ calls[c].pc = "update"
    /\ room' = IF HasUndefined(calls[c].patch) THEN room
               ELSE ApplyPatch(room, calls[c].patch)
    /\ calls' = IF HasUndefined(calls[c].patch)
                THEN [calls EXCEPT ![c] = Finish(@, "Unsupported field value: undefined")]
                ELSE [Invalidate(calls, {RoomKey}, c) EXCEPT ![c] = Finish(@, "ok")]
    /\ UNCHANGED <<players, subs, wagers, finalAnswers, pages, start, nWrites, nCalls>>

----------------------------------------------------------------------------
(* judgeSubmission and judgeFinal: runTransaction(db, async (tx) => ...) *)

StartJudgeSubmission(c, secret, id, correct) ==
    /\ Free(c)
    /\ nCalls < MaxHostCalls
    /\ nCalls' = nCalls + 1
    /\ calls' = [calls EXCEPT ![c] =
          [IdleCall EXCEPT !.op = "judgeSubmission", !.pc = "getRoom", !.secret = secret,
                           !.sub = id, !.correct = correct, !.attempt = 1]]
    /\ UNCHANGED <<store, pages, start, nWrites>>

StartJudgeFinal(c, secret, p, correct) ==
    /\ Free(c)
    /\ nCalls < MaxHostCalls
    /\ nCalls' = nCalls + 1
    /\ calls' = [calls EXCEPT ![c] =
          [IdleCall EXCEPT !.op = "judgeFinal", !.pc = "getRoom", !.secret = secret,
                           !.player = p, !.correct = correct, !.attempt = 1]]
    /\ UNCHANGED <<store, pages, start, nWrites>>

\* tx.get(roomRef) and the two checks that follow it, in both judgments
TxGetRoom(c) ==
    /\ calls[c].op \in {"judgeSubmission", "judgeFinal"}
    /\ calls[c].pc = "getRoom"
    /\ calls' = [calls EXCEPT ![c] =
          IF RoomMissing(room) THEN Finish(@, "Room not found")
          ELSE IF NotHost(room, @.secret) THEN Finish(@, "Not host")
          ELSE [@ EXCEPT !.pc = "getTarget", !.reads = @ \cup {RoomKey}]]
    /\ UNCHANGED <<store, pages, start, nWrites, nCalls>>

\* AlreadyJudged done wrong: the early return is missing
AlreadyJudgedIgnored(doc) == FALSE

\* if (sub.judged !== null) return;
AlreadyJudged(doc) == doc.judged # "null"

\* tx.get(subRef): not found, already judged (return), or go on to the player
TxGetSub(c) ==
    /\ calls[c].op = "judgeSubmission"
    /\ calls[c].pc = "getTarget"
    /\ LET doc == subs[calls[c].sub]
       IN  calls' = [calls EXCEPT ![c] =
             IF ~doc.exists THEN Finish(@, "Submission not found")
             ELSE IF AlreadyJudged(doc)
                  THEN [@ EXCEPT !.pc = "commit", !.plan = "none", !.rdSub = doc,
                                 !.reads = @ \cup {SubKey(calls[c].sub)}]
                  ELSE [@ EXCEPT !.pc = "getPlayer", !.rdSub = doc,
                                 !.reads = @ \cup {SubKey(calls[c].sub)}]]
    /\ UNCHANGED <<store, pages, start, nWrites, nCalls>>

\* tx.get(ansRef): not found, already judged (return), or go on to the wager
TxGetAns(c) ==
    /\ calls[c].op = "judgeFinal"
    /\ calls[c].pc = "getTarget"
    /\ LET doc == finalAnswers[calls[c].player]
       IN  calls' = [calls EXCEPT ![c] =
             IF ~doc.exists THEN Finish(@, "Final answer not found")
             ELSE IF AlreadyJudged(doc)
                  THEN [@ EXCEPT !.pc = "commit", !.plan = "none", !.rdAns = doc,
                                 !.reads = @ \cup {FinalKey(calls[c].player)}]
                  ELSE [@ EXCEPT !.pc = "getWager", !.rdAns = doc,
                                 !.reads = @ \cup {FinalKey(calls[c].player)}]]
    /\ UNCHANGED <<store, pages, start, nWrites, nCalls>>

\* tx.get(wagerRef); a missing wager reads as { wager: 0 }
TxGetWager(c) ==
    /\ calls[c].op = "judgeFinal"
    /\ calls[c].pc = "getWager"
    /\ calls' = [calls EXCEPT ![c] =
          [@ EXCEPT !.pc = "getPlayer", !.rdWager = wagers[calls[c].player],
                    !.reads = @ \cup {WagerKey(calls[c].player)}]]
    /\ UNCHANGED <<store, pages, start, nWrites, nCalls>>

\* the player the judgment scores: sub.playerId, or judgeFinal's playerId
Scored(call) == IF call.op = "judgeSubmission" THEN call.rdSub.playerId ELSE call.player

\* tx.get(playerRef); the writes are buffered until the commit
TxGetPlayer(c) ==
    /\ calls[c].op \in {"judgeSubmission", "judgeFinal"}
    /\ calls[c].pc = "getPlayer"
    /\ calls' = [calls EXCEPT ![c] =
          [@ EXCEPT !.pc = "commit", !.plan = "judge",
                    !.rdPlayer = players[Scored(calls[c])],
                    !.reads = @ \cup {PlayerKey(Scored(calls[c]))}]]
    /\ UNCHANGED <<store, pages, start, nWrites, nCalls>>

\* standardDelta done wrong: a wrong answer costs a point
standardDeltaPenalty(correct) == IF correct THEN 1 ELSE -1

\* const delta = correct ? 1 : 0
standardDelta(correct) == IF correct THEN 1 ELSE 0

\* effectiveWager done wrong: the wager is clamped to the cap, not to the score
effectiveWagerToCap(w, p) == clamp(MathFloor(2 * w.wager), 0, WagerCap)

\* clamp(Math.floor(w.wager ?? 0), 0, p.score ?? 0)
effectiveWager(w, p) == clamp(MathFloor(2 * w.wager), 0, p.score)

\* const delta = correct ? wager : -wager
finalDelta(correct, w, p) ==
    IF correct THEN effectiveWager(w, p) ELSE 0 - effectiveWager(w, p)

\* CommitConflict done wrong: reads and writes outside a transaction
CommitConflictNever(c) == FALSE

\* the commit is refused when a document the transaction read has been written since
CommitConflict(c) == calls[c].stale

\* a refused commit: the update function runs again, until the attempts are used up
TxConflict(c) ==
    /\ calls[c].op \in {"judgeSubmission", "judgeFinal"}
    /\ calls[c].pc = "commit"
    /\ ~(calls[c].op = "judgeFinal" /\ calls[c].plan = "judge" /\ ~calls[c].rdPlayer.exists)
    /\ CommitConflict(c)
    /\ calls' = [calls EXCEPT ![c] =
          IF @.attempt < MaxAttempts
          THEN Rerun(@)
          ELSE Finish(@, "aborted")]
    /\ UNCHANGED <<store, pages, start, nWrites, nCalls>>

\* the update function returned at "already judged": nothing to write
TxCommitNoop(c) ==
    /\ calls[c].op \in {"judgeSubmission", "judgeFinal"}
    /\ calls[c].pc = "commit"
    /\ calls[c].plan = "none"
    /\ ~CommitConflict(c)
    /\ calls' = [calls EXCEPT ![c] = Finish(@, "ok")]
    /\ UNCHANGED <<store, pages, start, nWrites, nCalls>>

\* tx.update(playerRef, ...) only if the player exists; tx.update(subRef, ...)
CommitJudgeSubmission(c) ==
    /\ calls[c].op = "judgeSubmission"
    /\ calls[c].pc = "commit"
    /\ calls[c].plan = "judge"
    /\ ~CommitConflict(c)
    /\ LET call == calls[c]
           pid == call.rdSub.playerId
           delta == standardDelta(call.correct)
       IN  /\ players' = IF call.rdPlayer.exists
                         THEN [players EXCEPT ![pid].score = call.rdPlayer.score + delta]
                         ELSE players
           /\ subs' = [subs EXCEPT ![call.sub].judged = JudgedOf(call.correct),
                                   ![call.sub].pointsDelta = delta]
           /\ calls' = [Invalidate(calls,
                                   {SubKey(call.sub)} \cup
                                     (IF call.rdPlayer.exists THEN {PlayerKey(pid)} ELSE {}),
                                   c)
                          EXCEPT ![c] = Finish(@, "ok")]
    /\ UNCHANGED <<room, wagers, finalAnswers, pages, start, nWrites, nCalls>>

\* tx.update(playerRef, ...) and tx.update(ansRef, ...); updating a document that
\* was read as missing fails the whole transaction before anything is sent
CommitJudgeFinal(c) ==
    /\ calls[c].op = "judgeFinal"
    /\ calls[c].pc = "commit"
    /\ calls[c].plan = "judge"
    /\ LET call == calls[c]
           delta == finalDelta(call.correct, call.rdWager, call.rdPlayer)
       IN  IF ~call.rdPlayer.exists
           THEN /\ calls' = [calls EXCEPT ![c] = Finish(@, "update of missing document")]
                /\ UNCHANGED <<players, finalAnswers>>
           ELSE /\ ~CommitConflict(c)
                /\ players' = [players EXCEPT ![call.player].score =
                                  call.rdPlayer.score + delta]
                /\ finalAnswers' = [finalAnswers EXCEPT
                                  ![call.player].judged = JudgedOf(call.correct),
                                  ![call.player].pointsDelta = delta]
                /\ calls' = [Invalidate(calls,
                                        {FinalKey(call.player), PlayerKey(call.player)}, c)
                               EXCEPT ![c] = Finish(@, "ok")]
    /\ UNCHANGED <<room, subs, wagers, pages, start, nWrites, nCalls>>

----------------------------------------------------------------------------
(* subscribeRoom: the page's setRoom receives snap.data(), every field of it *)

snapData(r) ==
    [exists |-> r.exists, hostSecret |-> r.hostSecret, status |-> r.status,
     title |-> r.title, questions |-> r.questions, currentIndex |-> r.currentIndex, revealed |-> r.revealed,
     acceptingAnswers |-> r.acceptingAnswers, revealedAt |-> r.revealedAt,
     final |-> r.final, suddenDeath |-> r.suddenDeath]

subscribeRoom ==
    /\ playerView # snapData(room)
    /\ playerView' = snapData(room)
    /\ UNCHANGED <<store, calls, hostView, playerPage, hostPage, start, nWrites, nCalls>>

----------------------------------------------------------------------------
(* The room page.  Its state is what the subscriptions last delivered, so a  *)
(* button acts on the room as the page sees it, not as the store holds it.   *)

\* the player whose page playerView and playerPage are
Me == "p1"

\* the secret in the host's link, as createRoom returned it
HostLinkSecret == "s1"

\* useEffect(() => subscribeRoom(roomId, setRoom), [roomId]) on the host's page
subscribeRoomHost ==
    /\ hostView # snapData(room)
    /\ hostView' = snapData(room)
    /\ UNCHANGED <<store, calls, playerView, playerPage, hostPage, start, nWrites, nCalls>>

\* subscribePlayers on the player's page: me = players.find(...) ?? null, and
\* useEffect(() => { if (me) setJoined(true) })
subscribePlayers ==
    /\ playerPage.me # players[Me]
    /\ playerPage' = [playerPage EXCEPT !.me = players[Me],
                                        !.joined = @ \/ players[Me].exists]
    /\ UNCHANGED <<store, calls, playerView, hostView, hostPage, start, nWrites, nCalls>>

\* const isHost = !!room && hostSecret && room.hostSecret === hostSecret
isHost == hostView.exists /\ HostLinkSecret # "" /\ hostView.hostSecret = HostLinkSecret

\* const nonFinal = room.currentIndex < 9
nonFinal == hostView.currentIndex < FinalIndex

\* AdvancePatch done wrong: only the index is written
AdvancePatchIndexOnly(idx) == [currentIndex |-> idx]

\* { currentIndex: ..., revealed: false, acceptingAnswers: false }
AdvancePatch(idx) == [currentIndex |-> idx, revealed |-> FALSE, acceptingAnswers |-> FALSE]

\* Prev: disabled={room.currentIndex === 0}
clickPrev(c) ==
    /\ isHost
    /\ hostView.currentIndex # 0
    /\ StartPatch(c, HostLinkSecret, AdvancePatch(hostView.currentIndex - 1))

\* clickNext done wrong: the button is never disabled
clickNextNeverDisabled(c) ==
    /\ isHost
    /\ StartPatch(c, HostLinkSecret, AdvancePatch(hostView.currentIndex + 1))

\* Next: disabled={room.currentIndex === 9}
clickNext(c) ==
    /\ isHost
    /\ hostView.currentIndex # FinalIndex
    /\ StartPatch(c, HostLinkSecret, AdvancePatch(hostView.currentIndex + 1))

\* the number cell of row idx of room.questions.map((question, idx) => ...)
clickRow(c, idx) ==
    /\ isHost
    /\ idx + 1 \in DOMAIN hostView.questions
    /\ StartPatch(c, HostLinkSecret, AdvancePatch(idx))

\* Reveal + Open Answers, shown when nonFinal
clickReveal(c) ==
    /\ isHost
    /\ nonFinal
    /\ StartPatch(c, HostLinkSecret, RevealPatch)

\* Close Answers, shown when nonFinal
clickCloseAnswers(c) ==
    /\ isHost
    /\ nonFinal
    /\ StartPatch(c, HostLinkSecret, CloseAnswersPatch)

\* time passes on the host's page
tick ==
    /\ hostPage.now < 1 + MaxTicks * TimerSeconds
    /\ hostPage' = [hostPage EXCEPT !.now = @ + TimerSeconds]
    /\ UNCHANGED <<store, calls, playerView, hostView, playerPage, start, nWrites, nCalls>>

\* Math.max(0, 30 - Math.floor(elapsed / 1000)), elapsed = Date.now() - revealTime
remaining == Max(0, TimerSeconds - (hostPage.now - hostView.revealedAt))

\* timerCloseAnswers done wrong: the page of the host is the one that never closes
timerCloseAnswersNotHost(c) ==
    /\ hostView.exists
    /\ hostView.revealed /\ hostView.acceptingAnswers /\ hostView.revealedAt # 0
    /\ remaining = 0 /\ ~isHost
    /\ StartPatch(c, HostLinkSecret, CloseAnswersPatch)

\* the timer effect: while the page sees the room revealed, accepting answers and
\* stamped, a tick of its interval that finds no time remaining closes the answers
timerCloseAnswers(c) ==
    /\ hostView.exists
    /\ hostView.revealed /\ hostView.acceptingAnswers /\ hostView.revealedAt # 0
    /\ remaining = 0 /\ isHost
    /\ StartPatch(c, HostLinkSecret, CloseAnswersPatch)

HidePatch == [revealed |-> FALSE, acceptingAnswers |-> FALSE]

\* Hide Question, shown when nonFinal
clickHide(c) ==
    /\ isHost
    /\ nonFinal
    /\ StartPatch(c, HostLinkSecret, HidePatch)

\* final: { ...room.final, wagersOpen: true, answersOpen: false, revealedAnswer: false }
OpenFinalWagersPatch(view) ==
    [status |-> "final_wager", revealed |-> TRUE, acceptingAnswers |-> FALSE,
     final |-> [view.final EXCEPT !.wagersOpen = TRUE, !.answersOpen = FALSE,
                                  !.revealedAnswer = FALSE]]

\* Open Final Wagers, shown when not nonFinal
clickOpenFinalWagers(c) ==
    /\ isHost
    /\ ~nonFinal
    /\ StartPatch(c, HostLinkSecret, OpenFinalWagersPatch(hostView))

\* final: { ...room.final, wagersOpen: false, answersOpen: true }
\* OpenFinalAnswersPatchAt done wrong: the wagers are left as they are
OpenFinalAnswersPatchKeepingWagers(view, t) ==
    [status |-> "final_answer", revealedAt |-> t, acceptingAnswers |-> TRUE,
     final |-> [view.final EXCEPT !.answersOpen = TRUE]]

\* the patch of Open Final Answers (30s) when new Date() is t
OpenFinalAnswersPatchAt(view, t) ==
    [status |-> "final_answer", revealedAt |-> t, acceptingAnswers |-> TRUE,
     final |-> [view.final EXCEPT !.wagersOpen = FALSE, !.answersOpen = TRUE]]
OpenFinalAnswersPatch(view) == OpenFinalAnswersPatchAt(view, hostPage.now)

\* Open Final Answers (30s), shown when not nonFinal
clickOpenFinalAnswers(c) ==
    /\ isHost
    /\ ~nonFinal
    /\ StartPatch(c, HostLinkSecret, OpenFinalAnswersPatch(hostView))

\* { final: { ...room.final, revealedAnswer: !room.final.revealedAnswer } }
ToggleRevealFinalAnswerPatch(view) ==
    [final |-> [view.final EXCEPT !.revealedAnswer = ~view.final.revealedAnswer]]

\* Reveal / Hide Final Answer, shown when not nonFinal
clickToggleRevealFinalAnswer(c) ==
    /\ isHost
    /\ ~nonFinal
    /\ StartPatch(c, HostLinkSecret, ToggleRevealFinalAnswerPatch(hostView))

\* PlayerView: const isFinal = room.currentIndex === 9
isFinal == playerView.currentIndex = FinalIndex

\* const showFinalJeopardy = isFinal && (room.final.wagersOpen || room.final.answersOpen)
showFinalJeopardy == isFinal /\ (playerView.final.wagersOpen \/ playerView.final.answersOpen)

\* Submit of "Submit your answer": shown when joined && room.revealed && !isFinal,
\* disabled={!room.acceptingAnswers}
pageSubmitAnswer(text) ==
    /\ playerView.exists
    /\ playerPage.joined /\ playerView.revealed /\ ~isFinal
    /\ playerView.acceptingAnswers
    /\ submitAnswer(Me, playerView.currentIndex, text)

\* onChange={(e) => setWager(Number(e.target.value))}
typeWager(h) ==
    /\ playerView.exists
    /\ playerPage.joined /\ showFinalJeopardy
    /\ playerPage.wager # h
    /\ playerPage' = [playerPage EXCEPT !.wager = h]
    /\ UNCHANGED <<store, calls, playerView, hostView, hostPage, start, nWrites, nCalls>>

\* const w = clamp(Math.floor(wager), 0, me?.score ?? 0), in whole points
pageWager == clamp(MathFloor(playerPage.wager), 0, playerPage.me.score)

\* Submit wager: shown when joined && showFinalJeopardy, disabled={!room.final.wagersOpen}
pageSubmitWager ==
    /\ playerView.exists
    /\ playerPage.joined /\ showFinalJeopardy
    /\ playerView.final.wagersOpen
    /\ submitWager(Me, 2 * pageWager)

\* Submit final answer: shown when joined && showFinalJeopardy,
\* disabled={!room.final.answersOpen}
pageSubmitFinalAnswer(text) ==
    /\ playerView.exists
    /\ playerPage.joined /\ showFinalJeopardy
    /\ playerView.final.answersOpen
    /\ submitFinalAnswer(Me, text)

----------------------------------------------------------------------------
(* The questions: the two API routes and the host's editing functions *)

\* String(x ?? "").trim()
Trim(s) == TrimRight(TrimLeft(s))

\* what res.json() gives the page when a route answers with an error
NoData == [hasQuestions |-> FALSE, questions |-> << >>,
           hasQuestion |-> FALSE, question |-> Slot(0, << >>, << >>, << >>)]

\* qs.map((q, i) => ({ question, answer, category: ... || "General", id: String(i + 1) }))
normalized(qs) ==
    [i \in 1 .. Len(qs) |->
        Slot(i, Trim(qs[i].question), Trim(qs[i].answer),
             IF Trim(qs[i].category) = << >> THEN <<"General">> ELSE Trim(qs[i].category))]

\* generateRoute done wrong: the length of the array is not checked
generateRouteAnyLength(data) ==
    IF ~data.isArray THEN NoData
    ELSE IF \E i \in 1 .. Len(data.questions) :
               normalized(data.questions)[i].question = << >>
               \/ normalized(data.questions)[i].answer = << >>
         THEN NoData
         ELSE [NoData EXCEPT !.hasQuestions = TRUE,
                             !.questions = normalized(data.questions)]

\* generateRoute done wrong: empty questions and answers are let through
generateRouteNoBlankCheck(data) ==
    IF ~data.isArray \/ Len(data.questions) # NumSlots THEN NoData
    ELSE [NoData EXCEPT !.hasQuestions = TRUE,
                        !.questions = normalized(data.questions)]

\* POST /api/generate, from the parsed model output to the response
generateRoute(data) ==
    IF ~data.isArray \/ Len(data.questions) # NumSlots THEN NoData
    ELSE IF \E i \in 1 .. Len(data.questions) :
               normalized(data.questions)[i].question = << >>
               \/ normalized(data.questions)[i].answer = << >>
         THEN NoData
         ELSE [NoData EXCEPT !.hasQuestions = TRUE,
                             !.questions = normalized(data.questions)]

\* POST /api/replace: the question is passed on as the model gave it
replaceRoute(data) ==
    IF ~data.hasQuestion \/ data.question.question = << >> \/ data.question.answer = << >>
    THEN NoData
    ELSE [NoData EXCEPT !.hasQuestion = TRUE, !.question = data.question]

\* the patch of generateGame; data.questions is undefined when the route failed
GeneratePatch(data) ==
    [questions |-> data.questions, currentIndex |-> 0, status |-> "lobby",
     revealed |-> FALSE, acceptingAnswers |-> FALSE,
     final |-> [wagersOpen |-> FALSE, answersOpen |-> FALSE, revealedAnswer |-> FALSE],
     undefinedFields |-> IF data.hasQuestions THEN {} ELSE {"questions"}]

generateGame(c, out) ==
    /\ isHost
    /\ StartPatch(c, HostLinkSecret, GeneratePatch(generateRoute(out)))

\* room.questions.map((qq, i) => (i === idx ? { ...qq, [field]: value } : qq))
updateQField(c, idx, field, value) ==
    /\ isHost
    /\ idx + 1 \in DOMAIN hostView.questions
    /\ StartPatch(c, HostLinkSecret,
          [questions |-> [i \in DOMAIN hostView.questions |->
                             IF i = idx + 1
                             THEN [hostView.questions[i] EXCEPT ![field] = value]
                             ELSE hostView.questions[i]]])

\* if (data.question) { next = room.questions.map(...); patchRoomIfHost(...) }; a
\* response without a question ends the click with nothing sent
replaceQuestion(c, idx, out) ==
    /\ isHost
    /\ idx + 1 \in DOMAIN hostView.questions
    /\ LET data == replaceRoute(out)
       IN  IF data.hasQuestion
           THEN StartPatch(c, HostLinkSecret,
                   [questions |-> [i \in DOMAIN hostView.questions |->
                                      IF i = idx + 1
                                      THEN [data.question EXCEPT !.id = idx + 1]
                                      ELSE hostView.questions[i]]])
           ELSE /\ Free(c)
                /\ nCalls < MaxHostCalls
                /\ nCalls' = nCalls + 1
                /\ UNCHANGED <<store, calls, pages, start, nWrites>>

----------------------------------------------------------------------------
(* The end of the game and the sudden death.  The host's page acts on the   *)
(* players, final answers and sudden-death submissions its subscriptions    *)
(* last delivered.                                                          *)

\* useEffect(() => subscribePlayers(roomId, setPlayers), [roomId]) on the host's page
subscribePlayersHost ==
    /\ hostPage.players # players
    /\ hostPage' = [hostPage EXCEPT !.players = players]
    /\ UNCHANGED <<store, calls, playerView, hostView, playerPage, start, nWrites, nCalls>>

\* useEffect(() => subscribeFinalAnswers(roomId, setFinalAnswers), [roomId])
subscribeFinalAnswers ==
    /\ hostPage.finalAnswers # finalAnswers
    /\ hostPage' = [hostPage EXCEPT !.finalAnswers = finalAnswers]
    /\ UNCHANGED <<store, calls, playerView, hostView, playerPage, start, nWrites, nCalls>>

\* the submissions of index 999 in the store, by player
storeSuddenDeathSubs == [p \in Players |-> subs[<<SuddenDeathIndex, p>>]]

\* if (!room || !room.suddenDeath?.active) return;
\* return subscribeSubmissions(roomId, 999, setSuddenDeathSubs)
subscribeSuddenDeathSubs ==
    /\ hostView.exists /\ hostView.suddenDeath.active
    /\ hostPage.suddenDeathSubs # storeSuddenDeathSubs
    /\ hostPage' = [hostPage EXCEPT !.suddenDeathSubs = storeSuddenDeathSubs]
    /\ UNCHANGED <<store, calls, playerView, hostView, playerPage, start, nWrites, nCalls>>

\* allFinalAnswersJudged over lists of final answers and players
allJudged(fa, pl) ==
    LET answers == {p \in Players : fa[p].exists}
        playersWithAnswers == {p \in answers : fa[p].judged # "null"}
    IN  IF answers = {} \/ {p \in Players : pl[p].exists} = {}
        THEN FALSE
        ELSE \/ Cardinality(playersWithAnswers) = Cardinality({p \in Players : pl[p].exists})
             \/ \A p \in answers : fa[p].judged # "null"

allFinalAnswersJudged == allJudged(hostPage.finalAnswers, hostPage.players)

\* leaders over a list of players: the ids of those holding Math.max of the scores
leadersOf(pl) ==
    {p \in Players : pl[p].exists /\ \A o \in Players : pl[o].exists => pl[o].score <= pl[p].score}

leaders == leadersOf(hostPage.players)

\* const isSuddenDeath = room.suddenDeath?.active
isSuddenDeath == hostView.suddenDeath.active

EndGamePatch == [status |-> "ended"]

\* End Game, shown in the final panel once allFinalAnswersJudged
endGame(c) ==
    /\ isHost
    /\ ~nonFinal
    /\ allFinalAnswersJudged
    /\ StartPatch(c, HostLinkSecret, EndGamePatch)

\* id: "sudden_death", kept as a number as the ids of the ten slots are
SuddenDeathId == SuddenDeathIndex

\* { active: true, question: { ...data.question, id: "sudden_death" },
\*   eligiblePlayerIds: leaders.map(p => p.id), revealed: false, acceptingAnswers: false }
StartSuddenDeathPatch(question, ids) ==
    [suddenDeath |->
        [exists |-> TRUE, active |-> TRUE,
         question |-> [question EXCEPT !.id = SuddenDeathId],
         eligiblePlayerIds |-> ids, revealed |-> FALSE, acceptingAnswers |-> FALSE]]

\* Start Sudden Death: shown in the final panel when allFinalAnswersJudged and
\* leaders.length > 1, disabled={busy || isSuddenDeath}; a response without a
\* question ends the click with nothing sent
startSuddenDeath(c, out) ==
    /\ isHost
    /\ ~nonFinal
    /\ allFinalAnswersJudged
    /\ Cardinality(leaders) > 1
    /\ ~isSuddenDeath
    /\ LET data == replaceRoute(out)
       IN  IF data.hasQuestion
           THEN StartPatch(c, HostLinkSecret, StartSuddenDeathPatch(data.question, leaders))
           ELSE /\ Free(c)
                /\ nCalls < MaxHostCalls
                /\ nCalls' = nCalls + 1
                /\ UNCHANGED <<store, calls, pages, start, nWrites>>

\* { suddenDeath: { ...room.suddenDeath!, revealed: true, acceptingAnswers: true } }
RevealSuddenDeathPatch(view) ==
    [suddenDeath |-> [view.suddenDeath EXCEPT !.exists = TRUE, !.revealed = TRUE,
                                              !.acceptingAnswers = TRUE]]

\* Reveal & Open Answers, shown when isSuddenDeath && suddenDeathQ,
\* disabled={room.suddenDeath?.revealed}
revealSuddenDeath(c) ==
    /\ isHost
    /\ isSuddenDeath
    /\ ~hostView.suddenDeath.revealed
    /\ StartPatch(c, HostLinkSecret, RevealSuddenDeathPatch(hostView))

\* { suddenDeath: { ...room.suddenDeath!, acceptingAnswers: false } }
CloseSuddenDeathPatch(view) ==
    [suddenDeath |-> [view.suddenDeath EXCEPT !.exists = TRUE, !.acceptingAnswers = FALSE]]

\* Close Answers of the sudden death
closeSuddenDeathAnswers(c) ==
    /\ isHost
    /\ isSuddenDeath
    /\ StartPatch(c, HostLinkSecret, CloseSuddenDeathPatch(hostView))

\* { suddenDeath: { ...room.suddenDeath!, question: { ...data.question, id: "sudden_death" } } }
ReplaceSuddenDeathPatch(view, question) ==
    [suddenDeath |-> [view.suddenDeath EXCEPT !.exists = TRUE,
                                              !.question = [question EXCEPT !.id = SuddenDeathId]]]

\* Replace Question of the sudden death, disabled={busy || room.suddenDeath?.acceptingAnswers}
replaceSuddenDeathQuestion(c, out) ==
    /\ isHost
    /\ isSuddenDeath
    /\ ~hostView.suddenDeath.acceptingAnswers
    /\ LET data == replaceRoute(out)
       IN  IF data.hasQuestion
           THEN StartPatch(c, HostLinkSecret, ReplaceSuddenDeathPatch(hostView, data.question))
           ELSE /\ Free(c)
                /\ nCalls < MaxHostCalls
                /\ nCalls' = nCalls + 1
                /\ UNCHANGED <<store, calls, pages, start, nWrites>>

\* the two buttons of a final answer, disabled={a.judged !== null}
clickJudgeFinal(c, p, correct) ==
    /\ isHost
    /\ ~nonFinal
    /\ hostPage.finalAnswers[p].exists
    /\ hostPage.finalAnswers[p].judged = "null"
    /\ StartJudgeFinal(c, HostLinkSecret, p, correct)

\* the two buttons of a sudden-death submission, disabled={s.judged !== null}
clickJudgeSuddenDeath(c, p, correct) ==
    /\ isHost
    /\ isSuddenDeath
    /\ hostPage.suddenDeathSubs[p].exists
    /\ hostPage.suddenDeathSubs[p].judged = "null"
    /\ StartJudgeSubmission(c, HostLinkSecret, <<SuddenDeathIndex, p>>, correct)

\* the order of the document ids "999_p1", "999_p2", "999_p3"
IdRank == [p \in Players |-> IF p = "p1" THEN 1 ELSE IF p = "p2" THEN 2 ELSE 3]

\* orderBy("createdAt", "asc"), equal times by document id: p comes before o in
\* the list
Before(ss, p, o) ==
    \/ ss[p].createdAt < ss[o].createdAt
    \/ ss[p].createdAt = ss[o].createdAt /\ IdRank[p] < IdRank[o]

\* suddenDeathSubs.find(s => s.judged === true)?.playerId over a list of
\* submissions in createdAt order; "" when there is none
firstJudgedTrue(ss) ==
    LET right == {p \in Players : ss[p].exists /\ ss[p].judged = "true"}
    IN  IF right = {} THEN ""
        ELSE CHOOSE p \in right : \A o \in right \ {p} : Before(ss, p, o)

\* suddenDeathWinner: the id of players.find(p => p.id === winningSubmission.playerId),
\* "" for null
suddenDeathWinner ==
    IF ~hostView.exists \/ ~hostView.suddenDeath.active THEN ""
    ELSE LET w == firstJudgedTrue(hostPage.suddenDeathSubs)
         IN  IF w # "" /\ hostPage.players[w].exists THEN w ELSE ""

\* Submit Answer of the sudden death on the page of player p: shown when
\* isSuddenDeath && joined, canSeeSuddenDeath and isEligibleForSuddenDeath,
\* disabled={!room.suddenDeath?.acceptingAnswers}
pageSubmitSuddenDeath(p, text) ==
    /\ playerView.exists
    /\ playerView.suddenDeath.active /\ players[p].exists
    /\ playerView.suddenDeath.revealed
    /\ p \in playerView.suddenDeath.eligiblePlayerIds
    /\ playerView.suddenDeath.acceptingAnswers
    /\ submitAnswer(p, SuddenDeathIndex, text)

----------------------------------------------------------------------------
(* Spec: a fresh room; players write and the host judges, in any order.  The *)
(* host has one judgment in flight at a time here (SpecJudge runs two), and  *)
(* a behaviour holds at most MaxWrites player writes and MaxHostCalls calls. *)

\* the question index players answer in Spec
WriteIndices == {0}

\* what `start` records: the ledger, the calls, and the wagers as the players typed them
Ledger(declared) ==
    [room |-> room, players |-> players, subs |-> subs, finalAnswers |-> finalAnswers,
     calls |-> calls, declared |-> declared]

NoWagerInput == 0

\* the wagers typed in Spec: 2.5, and one above the cap
SpecWagers == {5, 2 * WagerCap + 3}

Init ==
    /\ room = NewRoom("s1")
    /\ players = [p \in Players |-> NoPlayer]
    /\ subs = [id \in SubIds |-> NoSub]
    /\ wagers = [p \in Players |-> NoWager]
    /\ finalAnswers = [p \in Players |-> NoFinal]
    /\ calls = [c \in Slots |-> IdleCall]
    /\ playerView = NoRoom
    /\ hostView = NoRoom
    /\ playerPage = NoPage
    /\ hostPage = NoHostPage
    /\ start = Ledger([p \in Players |-> NoWagerInput])
    /\ nWrites = 0
    /\ nCalls = 0

PlayerWrite ==
    \E p \in SpecPlayers :
        \/ joinAsPlayer(p)
        \/ \E q \in WriteIndices, text \in AnswerInputs : submitAnswer(p, q, text)
        \/ \E h \in SpecWagers : submitWager(p, h)
        \/ \E text \in AnswerInputs : submitFinalAnswer(p, text)

HostJudge ==
    \E secret \in Secrets, p \in SpecPlayers, correct \in BOOLEAN :
        \/ \E q \in WriteIndices : StartJudgeSubmission(1, secret, <<q, p>>, correct)
        \/ StartJudgeFinal(1, secret, p, correct)

TxStep ==
    \E c \in Slots :
        \/ TxGetRoom(c)
        \/ TxGetSub(c)
        \/ TxGetAns(c)
        \/ TxGetWager(c)
        \/ TxGetPlayer(c)
        \/ TxConflict(c)
        \/ TxCommitNoop(c)
        \/ CommitJudgeSubmission(c)
        \/ CommitJudgeFinal(c)

Next == PlayerWrite \/ HostJudge \/ TxStep

Spec == Init /\ [][Next]_vars

----------------------------------------------------------------------------
(* SpecJudge: a game in progress, and two judgments issued at the same time. *)
(* p1 holds k points from k main questions judged correct, has an unjudged   *)
(* answer to question 0, an unjudged sudden-death answer, a wager and an     *)
(* unjudged final answer; p2 has an unjudged answer to question 0.           *)

RaceSubs == { <<0, "p1">>, <<SuddenDeathIndex, "p1">>, <<0, "p2">> }

RaceCalls ==
    { [IdleCall EXCEPT !.op = "judgeSubmission", !.pc = "getRoom", !.secret = "s1",
                       !.sub = id, !.correct = b, !.attempt = 1]
        : id \in RaceSubs, b \in BOOLEAN }
    \cup
    { [IdleCall EXCEPT !.op = "judgeFinal", !.pc = "getRoom", !.secret = "s1",
                       !.player = "p1", !.correct = b, !.attempt = 1]
        : b \in BOOLEAN }

JudgedCorrect(p, q) ==
    [submitAnswerDoc(p, q, <<"a">>) EXCEPT !.judged = "true", !.pointsDelta = 1]

InitJudge ==
    /\ room = NewRoom("s1")
    /\ \E k \in 0 .. MaxInitScore :
          /\ players = [p \in Players |->
                           [exists |-> TRUE, score |-> IF p = "p1" THEN k ELSE 0]]
          /\ subs = [id \in SubIds |->
                        IF id \in RaceSubs THEN submitAnswerDoc(id[2], id[1], <<"a">>)
                        ELSE IF id[2] = "p1" /\ id[1] \in 1 .. k
                             THEN JudgedCorrect("p1", id[1])
                             ELSE NoSub]
    /\ finalAnswers = [p \in Players |->
                          IF p = "p1" THEN submitFinalAnswerDoc(<<"a">>) ELSE NoFinal]
    /\ calls \in [Slots -> RaceCalls]
    /\ playerView = NoRoom
    /\ hostView = NoRoom
    /\ playerPage = NoPage
    /\ hostPage = NoHostPage
    /\ nWrites = 0
    /\ nCalls = 0
    /\ \/ /\ wagers = [p \in Players |-> NoWager]
          /\ start = Ledger([p \in Players |-> NoWagerInput])
       \/ \E h \in WagerInputs :
             /\ wagers = [p \in Players |-> IF p = "p1" THEN submitWagerDoc(h) ELSE NoWager]
             /\ start = Ledger([p \in Players |-> IF p = "p1" THEN h ELSE NoWagerInput])

NextJudge == TxStep

SpecJudge == InitJudge /\ [][NextJudge]_vars

----------------------------------------------------------------------------
(* SpecRoom: the host patches the room and judges, with either secret and up *)
(* to two calls at a time (MaxHostCalls calls in a behaviour), while a       *)
(* player's page receives the room's snapshots.                              *)

InitRoom ==
    /\ room \in {NewRoom(s) : s \in Secrets}
    /\ players = [p \in Players |-> IF p = "p1" THEN joinDoc ELSE NoPlayer]
    /\ subs = [id \in SubIds |->
                  IF id = <<0, "p1">> THEN submitAnswerDoc("p1", 0, <<"a">>) ELSE NoSub]
    /\ wagers = [p \in Players |-> NoWager]
    /\ finalAnswers = [p \in Players |->
                          IF p = "p1" THEN submitFinalAnswerDoc(<<"a">>) ELSE NoFinal]
    /\ calls = [c \in Slots |-> IdleCall]
    /\ playerView = NoRoom
    /\ hostView = NoRoom
    /\ playerPage = NoPage
    /\ hostPage = NoHostPage
    /\ start = Ledger([p \in Players |-> NoWagerInput])
    /\ nWrites = 0
    /\ nCalls = 0

HostCall ==
    \E c \in Slots, secret \in Secrets :
        \/ \E patch \in HostPatches : StartPatch(c, secret, patch)
        \/ \E correct \in BOOLEAN : StartJudgeSubmission(c, secret, <<0, "p1">>, correct)
        \/ \E correct \in BOOLEAN : StartJudgeFinal(c, secret, "p1", correct)

PatchStep == \E c \in Slots : PatchGetDoc(c) \/ PatchUpdate(c)

NextRoom == HostCall \/ PatchStep \/ TxStep \/ subscribeRoom

SpecRoom == InitRoom /\ [][NextRoom]_vars

----------------------------------------------------------------------------
(* SpecPage: the host's page and one player's page act on the room.  The     *)
(* room is at its first question, its last standard one or the Final         *)
(* Jeopardy slot; the player has joined and may hold points; both pages      *)
(* have received the room.                                                   *)

\* where the room stands when SpecPage begins
PageIndices == {0, FinalIndex - 1, FinalIndex}

\* the score of the player when SpecPage begins
PageScores == {0, 2}

\* what the player types in the wager field, in halves: 2 and 9999
PageWagers == {4, 2 * WagerCap}

\* what the player types in the answer field
PageAnswers == { <<"a">> }

\* the rows the host clicks
RowIndices == {0, FinalIndex}

InitPage ==
    /\ \E i \in PageIndices : room = [NewRoom(HostLinkSecret) EXCEPT !.currentIndex = i]
    /\ \E k \in PageScores :
          /\ players = [p \in Players |->
                           IF p = Me THEN [joinDoc EXCEPT !.score = k] ELSE NoPlayer]
          /\ subs = [id \in SubIds |->
                        IF id[2] = Me /\ id[1] \in 1 .. k
                        THEN JudgedCorrect(Me, id[1]) ELSE NoSub]
    /\ wagers = [p \in Players |-> NoWager]
    /\ finalAnswers = [p \in Players |-> NoFinal]
    /\ calls = [c \in Slots |-> IdleCall]
    /\ playerView = snapData(room)
    /\ hostView = snapData(room)
    \* the player has clicked Join; the players snapshot has arrived or not yet
    /\ \E me \in {players[Me], NoPlayer} :
          playerPage = [me |-> me, joined |-> TRUE, wager |-> 0]
    /\ hostPage = NoHostPage
    /\ start = Ledger([p \in Players |-> NoWagerInput])
    /\ nWrites = 0
    /\ nCalls = 0

HostClick ==
    \E c \in Slots :
        \/ clickPrev(c)
        \/ clickNext(c)
        \/ \E idx \in RowIndices : clickRow(c, idx)
        \/ clickReveal(c)
        \/ clickCloseAnswers(c)
        \/ clickHide(c)
        \/ clickOpenFinalWagers(c)
        \/ clickOpenFinalAnswers(c)

PlayerClick ==
    \/ \E text \in PageAnswers : pageSubmitAnswer(text)
    \/ \E h \in PageWagers : typeWager(h)
    \/ pageSubmitWager
    \/ \E text \in PageAnswers : pageSubmitFinalAnswer(text)

Snapshot == subscribeRoom \/ subscribeRoomHost \/ subscribePlayers

NextPage == HostClick \/ PatchStep \/ PlayerClick \/ Snapshot

SpecPage == InitPage /\ [][NextPage]_vars

----------------------------------------------------------------------------
(* SpecLookup: the host judges in a room that was never created, or in a     *)
(* room where one player has answered and the other has not.                 *)

\* the submissions the host judges in SpecLookup: one that exists, one that does not
LookupSubs == { <<0, "p1">>, <<0, "p2">> }

InitLookup ==
    /\ \/ /\ room = NoRoom
          /\ players = [p \in Players |-> NoPlayer]
          /\ subs = [id \in SubIds |-> NoSub]
          /\ finalAnswers = [p \in Players |-> NoFinal]
       \/ /\ room = NewRoom(HostLinkSecret)
          /\ players = [p \in Players |-> IF p = "p1" THEN joinDoc ELSE NoPlayer]
          /\ subs = [id \in SubIds |->
                        IF id = <<0, "p1">> THEN submitAnswerDoc("p1", 0, <<"a">>)
                        ELSE NoSub]
          /\ finalAnswers = [p \in Players |->
                                IF p = "p1" THEN submitFinalAnswerDoc(<<"a">>) ELSE NoFinal]
    /\ wagers = [p \in Players |-> NoWager]
    /\ calls = [c \in Slots |-> IdleCall]
    /\ playerView = NoRoom
    /\ hostView = NoRoom
    /\ playerPage = NoPage
    /\ hostPage = NoHostPage
    /\ start = Ledger([p \in Players |-> NoWagerInput])
    /\ nWrites = 0
    /\ nCalls = 0

HostLookup ==
    \E c \in Slots, correct \in BOOLEAN :
        \/ \E id \in LookupSubs : StartJudgeSubmission(c, HostLinkSecret, id, correct)
        \/ \E p \in SpecPlayers : StartJudgeFinal(c, HostLinkSecret, p, correct)

NextLookup == HostLookup \/ TxStep

SpecLookup == InitLookup /\ [][NextLookup]_vars

----------------------------------------------------------------------------
(* SpecQuestions: the host generates a game, edits fields and replaces       *)
(* questions in a fresh room, two calls at a time, its page refreshed at any *)
(* moment; the language model answers what it likes.                         *)

\* a question as the model returns it
Item(question, answer) == Slot(0, question, answer, << >>)

\* n questions with untrimmed answers, the first question being `first`
Items(n, first) ==
    [i \in 1 .. n |-> Item(IF i = 1 THEN first ELSE <<"q">>, <<" ", "a">>)]

\* the parsed output of the model for /api/generate: ten good questions without a
\* category, ten with one, nine, eleven, ten with a blank one, and no array at all
GenerateOutputs ==
    { [isArray |-> TRUE, questions |-> Items(NumSlots, <<"q">>)],
      [isArray |-> TRUE,
       questions |-> [i \in 1 .. NumSlots |-> Slot(0, <<"q">>, <<"a">>, <<"c">>)]],
      [isArray |-> TRUE, questions |-> Items(NumSlots - 1, <<"q">>)],
      [isArray |-> TRUE, questions |-> Items(NumSlots + 1, <<"q">>)],
      [isArray |-> TRUE, questions |-> Items(NumSlots, <<" ">>)],
      [isArray |-> FALSE, questions |-> << >>] }

\* the parsed output of the model for /api/replace: a question, one with an empty
\* answer, and none
ReplaceOutputs ==
    { [hasQuestion |-> TRUE, question |-> Item(<<"r">>, <<"a">>)],
      [hasQuestion |-> TRUE, question |-> Item(<<"r">>, << >>)],
      [hasQuestion |-> FALSE, question |-> Item(<< >>, << >>)] }

\* what the host types into a field
EditValues == { <<"e">>, << >> }

InitQuestions ==
    /\ room = NewRoom(HostLinkSecret)
    /\ players = [p \in Players |-> NoPlayer]
    /\ subs = [id \in SubIds |-> NoSub]
    /\ wagers = [p \in Players |-> NoWager]
    /\ finalAnswers = [p \in Players |-> NoFinal]
    /\ calls = [c \in Slots |-> IdleCall]
    /\ playerView = NoRoom
    /\ hostView = snapData(room)
    /\ playerPage = NoPage
    /\ hostPage = NoHostPage
    /\ start = Ledger([p \in Players |-> NoWagerInput])
    /\ nWrites = 0
    /\ nCalls = 0

HostEdit ==
    \E c \in Slots :
        \/ \E out \in GenerateOutputs : generateGame(c, out)
        \/ \E idx \in RowIndices, field \in {"question", "answer", "category"},
              value \in EditValues : updateQField(c, idx, field, value)
        \/ \E idx \in RowIndices, out \in ReplaceOutputs : replaceQuestion(c, idx, out)

NextQuestions == HostEdit \/ PatchStep \/ subscribeRoomHost

SpecQuestions == InitQuestions /\ [][NextQuestions]_vars

----------------------------------------------------------------------------
(* SpecEnd: the end of a game.  The room stands at the Final Jeopardy with   *)
(* its answers open, both players have joined and hold a score, p2's final  *)
(* answer is judged, p1 has wagered one point and its final answer is      *)
(* missing or waiting.  The host judges, ends the game and starts the       *)
(* sudden death, p1 answers, and the pages are refreshed at any time.       *)

\* the scores the two players hold when SpecEnd begins
EndScores == {1, 2}

\* what p1 typed as its wager, in halves: one point
EndWager == 2 * 1

\* the room once the host has opened the final answers
FinalRoom ==
    ApplyPatch([NewRoom(HostLinkSecret) EXCEPT !.currentIndex = FinalIndex],
               OpenFinalAnswersPatchAt(NewRoom(HostLinkSecret), NoHostPage.now))

\* a final answer judged wrong with no wager placed
JudgedWrongFinal ==
    [submitFinalAnswerDoc(<<"a">>) EXCEPT !.judged = "false", !.pointsDelta = 0]

\* the parsed output of the model for the sudden-death question: one, or none
SuddenOutputs ==
    { [hasQuestion |-> TRUE, question |-> Item(<<"t">>, <<"a">>)],
      [hasQuestion |-> FALSE, question |-> Item(<< >>, << >>)] }

\* the players of `score` have joined and hold these scores, each with as many
\* submissions judged correct
Scoreboard(score) ==
    /\ players = [p \in Players |->
                     IF p \in DOMAIN score THEN [joinDoc EXCEPT !.score = score[p]]
                     ELSE NoPlayer]
    /\ subs = [id \in SubIds |->
                  IF id[2] \in DOMAIN score /\ id[1] \in 1 .. score[id[2]]
                  THEN JudgedCorrect(id[2], id[1]) ELSE NoSub]

\* every page holds what the store holds
FreshPages ==
    /\ playerView = snapData(room)
    /\ hostView = snapData(room)
    /\ playerPage = [me |-> players[Me], joined |-> TRUE, wager |-> 0]
    /\ hostPage = [players |-> players, finalAnswers |-> finalAnswers,
                   suddenDeathSubs |-> storeSuddenDeathSubs, now |-> 1]

InitEnd ==
    /\ \E score \in [SpecPlayers -> EndScores] : Scoreboard(score)
    /\ room = FinalRoom
    /\ wagers = [p \in Players |-> IF p = "p1" THEN submitWagerDoc(EndWager) ELSE NoWager]
    /\ \E a \in {NoFinal, submitFinalAnswerDoc(<<"a">>)} :
          finalAnswers = [p \in Players |->
                             IF p = "p1" THEN a
                             ELSE IF p = "p2" THEN JudgedWrongFinal ELSE NoFinal]
    /\ calls = [c \in Slots |-> IdleCall]
    /\ FreshPages
    /\ start = Ledger([p \in Players |-> NoWagerInput])
    /\ nWrites = 0
    /\ nCalls = 0

HostEnd ==
    \E c \in Slots :
        \/ endGame(c)
        \/ \E out \in SuddenOutputs : startSuddenDeath(c, out)
        \/ \E p \in SpecPlayers, correct \in BOOLEAN : clickJudgeFinal(c, p, correct)

PlayerEnd == \E text \in PageAnswers : pageSubmitFinalAnswer(text)

SnapshotEnd ==
    \/ subscribeRoom
    \/ subscribeRoomHost
    \/ subscribePlayersHost
    \/ subscribeFinalAnswers

\* a step of a judgeFinal in flight
JudgeFinalStep ==
    \E c \in Slots :
        \/ TxGetRoom(c)
        \/ TxGetAns(c)
        \/ TxGetWager(c)
        \/ TxGetPlayer(c)
        \/ TxConflict(c)
        \/ TxCommitNoop(c)
        \/ CommitJudgeFinal(c)

NextEnd == HostEnd \/ PatchStep \/ JudgeFinalStep \/ PlayerEnd \/ SnapshotEnd

SpecEnd == InitEnd /\ [][NextEnd]_vars

----------------------------------------------------------------------------
(* SpecSudden: the sudden death between two tied players whose final        *)
(* answers are judged.  It has begun and is hidden, open or closed; the     *)
(* host reveals, closes, replaces the question and judges, the players      *)
(* answer, and the pages are refreshed at any time.                         *)


\* the sudden death as the room holds it some time after it began
SuddenStages(ids) ==
    LET begun == StartSuddenDeathPatch(Item(<<"t">>, <<"a">>), ids).suddenDeath
    IN  { begun,
          [begun EXCEPT !.revealed = TRUE, !.acceptingAnswers = TRUE],
          [begun EXCEPT !.revealed = TRUE, !.acceptingAnswers = FALSE] }

InitSudden ==
    /\ Scoreboard([p \in SpecPlayers |-> TiedScore])
    /\ \E sd \in SuddenStages(leadersOf(players)) :
          room = [FinalRoom EXCEPT !.suddenDeath = sd]
    /\ wagers = [p \in Players |-> NoWager]
    /\ finalAnswers = [p \in Players |->
                          IF p \in SpecPlayers THEN JudgedWrongFinal ELSE NoFinal]
    /\ calls = [c \in Slots |-> IdleCall]
    /\ FreshPages
    /\ start = Ledger([p \in Players |-> NoWagerInput])
    /\ nWrites = 0
    /\ nCalls = 0

HostSudden ==
    \E c \in Slots :
        \/ revealSuddenDeath(c)
        \/ closeSuddenDeathAnswers(c)
        \/ \E out \in SuddenOutputs : replaceSuddenDeathQuestion(c, out)
        \/ \E p \in SpecPlayers, correct \in BOOLEAN :
              clickJudgeSuddenDeath(c, p, correct)

PlayerSudden ==
    \E p \in SpecPlayers, text \in PageAnswers : pageSubmitSuddenDeath(p, text)

SnapshotSudden ==
    \/ subscribeRoom
    \/ subscribeRoomHost
    \/ subscribePlayersHost
    \/ subscribeSuddenDeathSubs

\* a step of a judgeSubmission in flight
JudgeSubmissionStep ==
    \E c \in Slots :
        \/ TxGetRoom(c)
        \/ TxGetSub(c)
        \/ TxGetPlayer(c)
        \/ TxConflict(c)
        \/ TxCommitNoop(c)
        \/ CommitJudgeSubmission(c)

NextSudden ==
    HostSudden \/ PatchStep \/ JudgeSubmissionStep \/ PlayerSudden \/ SnapshotSudden

SpecSudden == InitSudden /\ [][NextSudden]_vars

----------------------------------------------------------------------------
(* SpecTie: three players have joined, hold the same score and have their   *)
(* final answers judged.  The host starts the sudden death and runs it, a   *)
(* player joins again, and the host's page is refreshed at any time.        *)

InitTie ==
    /\ Scoreboard([p \in Players |-> TiedScore])
    /\ room = FinalRoom
    /\ wagers = [p \in Players |-> NoWager]
    /\ finalAnswers = [p \in Players |-> JudgedWrongFinal]
    /\ calls = [c \in Slots |-> IdleCall]
    /\ FreshPages
    /\ start = Ledger([p \in Players |-> NoWagerInput])
    /\ nWrites = 0
    /\ nCalls = 0

HostTie ==
    \E c \in Slots :
        \/ \E out \in SuddenOutputs : startSuddenDeath(c, out)
        \/ revealSuddenDeath(c)
        \/ closeSuddenDeathAnswers(c)
        \/ \E out \in SuddenOutputs : replaceSuddenDeathQuestion(c, out)

PlayerTie == \E p \in Players : joinAsPlayer(p)

NextTie == HostTie \/ PatchStep \/ PlayerTie \/ subscribeRoomHost \/ subscribePlayersHost

SpecTie == InitTie /\ [][NextTie]_vars

----------------------------------------------------------------------------
(* SpecClose: a question is revealed and open for answers, its thirty       *)
(* seconds have passed.  The host closes the answers and hides the          *)
(* question, the timer of the host's page closes the answers, and the pages *)
(* are refreshed at any time.                                               *)

\* the questions that can be revealed when SpecClose begins
CloseIndices == {0, FinalIndex - 1}

InitClose ==
    /\ \E i \in CloseIndices :
          room = ApplyPatch([NewRoom(HostLinkSecret) EXCEPT !.currentIndex = i],
                            RevealPatchAt(NoHostPage.now))
    /\ \E score \in [SpecPlayers -> {0}] : Scoreboard(score)
    /\ wagers = [p \in Players |-> NoWager]
    /\ finalAnswers = [p \in Players |-> NoFinal]
    /\ calls = [c \in Slots |-> IdleCall]
    /\ FreshPages
    /\ start = Ledger([p \in Players |-> NoWagerInput])
    /\ nWrites = 0
    /\ nCalls = 0

HostClose ==
    \E c \in Slots :
        \/ clickCloseAnswers(c)
        \/ clickHide(c)
        \/ timerCloseAnswers(c)

NextClose == HostClose \/ PatchStep \/ subscribeRoom \/ subscribeRoomHost \/ tick

SpecClose == InitClose /\ [][NextClose]_vars

----------------------------------------------------------------------------
(* SpecTimer: a question has just been revealed and is open for answers.    *)
(* The host touches nothing: time passes, the player answers, the timer of  *)
(* the host's page closes the answers and the pages are refreshed.          *)
(* SpecTimerFair adds that the host's page keeps running: its clock         *)
(* advances, its interval fires, its snapshots arrive and its writes are    *)
(* carried out.                                                             *)

PlayerTimer == \E text \in AnswerInputs : pageSubmitAnswer(text)

TimerFires == \E c \in Slots : timerCloseAnswers(c)

NextTimer == tick \/ TimerFires \/ PatchStep \/ PlayerTimer \/ subscribeRoom \/ subscribeRoomHost

SpecTimer == InitClose /\ [][NextTimer]_vars

SpecTimerFair ==
    /\ SpecTimer
    /\ WF_vars(tick) /\ WF_vars(TimerFires) /\ WF_vars(PatchStep) /\ WF_vars(subscribeRoomHost)

----------------------------------------------------------------------------
(* SpecReveal: a question has just been revealed.  Time passes, the timer   *)
(* closes the answers, and the host reveals again and moves to the next     *)
(* question while the writes of the timer are on their way.                 *)

HostReveal ==
    \E c \in Slots :
        \/ clickReveal(c)
        \/ clickNext(c)
        \/ timerCloseAnswers(c)

NextReveal == tick \/ HostReveal \/ PatchStep \/ subscribeRoomHost

SpecReveal == InitClose /\ [][NextReveal]_vars

----------------------------------------------------------------------------
(* SpecFinal: the room is on the Final Jeopardy slot and the host has       *)
(* opened the final wagers.  The host opens the final answers, time passes, *)
(* the timer closes the answers, and the player sends final answers from    *)
(* what the page shows.                                                     *)

\* the room once the host has opened the final wagers
WagerRoom ==
    ApplyPatch([NewRoom(HostLinkSecret) EXCEPT !.currentIndex = FinalIndex],
               OpenFinalWagersPatch(NewRoom(HostLinkSecret)))

InitFinal ==
    /\ room = WagerRoom
    /\ \E score \in [SpecPlayers -> {0}] : Scoreboard(score)
    /\ wagers = [p \in Players |-> NoWager]
    /\ finalAnswers = [p \in Players |-> NoFinal]
    /\ calls = [c \in Slots |-> IdleCall]
    /\ FreshPages
    /\ start = Ledger([p \in Players |-> NoWagerInput])
    /\ nWrites = 0
    /\ nCalls = 0

HostFinal ==
    \E c \in Slots :
        \/ clickOpenFinalWagers(c)
        \/ clickOpenFinalAnswers(c)
        \/ timerCloseAnswers(c)

PlayerFinal == \E text \in AnswerInputs : pageSubmitFinalAnswer(text)

NextFinal == tick \/ HostFinal \/ PatchStep \/ PlayerFinal \/ subscribeRoom \/ subscribeRoomHost

SpecFinal == InitFinal /\ [][NextFinal]_vars

----------------------------------------------------------------------------
(* SpecEdits: a new room.  The host edits the first question by hand and    *)
(* has the second one replaced; the page is refreshed at any time.  Only    *)
(* EditedText is typed, into the question field of the first slot, and only *)
(* ReplacedText comes back for the second.                                  *)

EditedText == <<"e">>
ReplacedText == <<"r">>

\* the parsed output of the model for /api/replace in SpecEdits: the question with
\* one answer or another, or none
EditOutputs ==
    { [hasQuestion |-> TRUE, question |-> Item(ReplacedText, <<"a">>)],
      [hasQuestion |-> TRUE, question |-> Item(ReplacedText, <<"b">>)],
      [hasQuestion |-> FALSE, question |-> Item(<< >>, << >>)] }

HostEdits ==
    \E c \in Slots :
        \/ updateQField(c, 0, "question", EditedText)
        \/ \E out \in EditOutputs : replaceQuestion(c, 1, out)

NextEdits == HostEdits \/ PatchStep \/ subscribeRoomHost

SpecEdits == InitQuestions /\ [][NextEdits]_vars

----------------------------------------------------------------------------
(* Start New Game, the button of the window that announces the winner of    *)
(* the sudden death, and SpecNewGame: a game has ended in a sudden death    *)
(* that p1 has won.  The host starts a new game, moves to the Final slot    *)
(* and starts a sudden death again; the host's page is refreshed at any     *)
(* time.  Nobody answers and nothing is judged.                             *)

\* resetAllScores: every player is back at 0
resetAllScores(pl) ==
    [p \in Players |-> IF pl[p].exists THEN [pl[p] EXCEPT !.score = 0] ELSE pl[p]]

\* the patch of Start New Game: the one of generateGame and
\* suddenDeath: deleteField()
NewGamePatch(data) ==
    [f \in DOMAIN GeneratePatch(data) \cup {"suddenDeath"} |->
        IF f = "suddenDeath" THEN NoSuddenDeath ELSE GeneratePatch(data)[f]]

\* setBusy(true) ... finally { setBusy(false) } of Start New Game: its patch is
\* on its way
startingNewGame ==
    \E d \in Slots :
        /\ calls[d].op = "patchRoomIfHost" /\ calls[d].pc \notin {"idle", "done"}
        /\ {"questions", "suddenDeath"} \subseteq DOMAIN calls[d].patch

\* Start New Game, shown to the host while a winner is announced,
\* disabled={busy}: await resetAllScores, fetch /api/generate, patchRoomIfHost;
\* when resetAllScores throws, the click ends there
startNewGame(c, out) ==
    /\ isHost
    /\ suddenDeathWinner # ""
    /\ ~startingNewGame
    /\ Free(c)
    /\ IF RoomMissing(room) \/ NotHost(room, HostLinkSecret)
       THEN UNCHANGED <<players, calls>>
       ELSE /\ players' = resetAllScores(players)
            /\ calls' = [Invalidate(calls, {PlayerKey(p) : p \in Players}, 0) EXCEPT ![c] =
                  [IdleCall EXCEPT !.op = "patchRoomIfHost", !.pc = "getDoc",
                                   !.secret = HostLinkSecret,
                                   !.patch = NewGamePatch(generateRoute(out))]]
    /\ UNCHANGED <<room, subs, wagers, finalAnswers, pages, start, nWrites, nCalls>>

\* the sudden death of the game that has ended: answers closed, p1 judged correct
WonSuddenDeath ==
    [StartSuddenDeathPatch(Item(<<"t">>, <<"a">>), SpecPlayers).suddenDeath
        EXCEPT !.revealed = TRUE, !.acceptingAnswers = FALSE]

InitNewGame ==
    /\ room = [FinalRoom EXCEPT !.suddenDeath = WonSuddenDeath]
    /\ players = [p \in Players |->
                     IF p = "p1" THEN [joinDoc EXCEPT !.score = TiedScore + 1]
                     ELSE IF p = "p2" THEN [joinDoc EXCEPT !.score = TiedScore]
                     ELSE NoPlayer]
    /\ subs = [id \in SubIds |->
                  IF id[2] \in SpecPlayers /\ id[1] \in 1 .. TiedScore
                  THEN JudgedCorrect(id[2], id[1])
                  ELSE IF id = <<SuddenDeathIndex, "p1">>
                  THEN JudgedCorrect("p1", SuddenDeathIndex) ELSE NoSub]
    /\ wagers = [p \in Players |-> NoWager]
    /\ finalAnswers = [p \in Players |->
                          IF p \in SpecPlayers THEN JudgedWrongFinal ELSE NoFinal]
    /\ calls = [c \in Slots |-> IdleCall]
    /\ FreshPages
    /\ start = Ledger([p \in Players |-> NoWagerInput])
    /\ nWrites = 0
    /\ nCalls = 0

HostNewGame ==
    \E c \in Slots :
        \/ \E out \in GenerateOutputs : startNewGame(c, out)
        \/ clickRow(c, FinalIndex)
        \/ \E out \in SuddenOutputs : startSuddenDeath(c, out)

NextNewGame == HostNewGame \/ PatchStep \/ subscribeRoomHost \/ subscribePlayersHost

SpecNewGame == InitNewGame /\ [][NextNewGame]_vars

----------------------------------------------------------------------------
(* SpecFlags: the room is on the Final Jeopardy slot, before the wagers,    *)
(* with the wagers open or with the answers open.  The host opens wagers    *)
(* and answers, reveals and hides the final answer key and generates a new  *)
(* game, all from what the page shows; the page is refreshed at any time.   *)

InitFlags ==
    /\ room \in { [NewRoom(HostLinkSecret) EXCEPT !.currentIndex = FinalIndex],
                  WagerRoom, FinalRoom }
    /\ \E score \in [SpecPlayers -> {0}] : Scoreboard(score)
    /\ wagers = [p \in Players |-> NoWager]
    /\ finalAnswers = [p \in Players |-> NoFinal]
    /\ calls = [c \in Slots |-> IdleCall]
    /\ FreshPages
    /\ start = Ledger([p \in Players |-> NoWagerInput])
    /\ nWrites = 0
    /\ nCalls = 0

HostFlags ==
    \E c \in Slots :
        \/ clickOpenFinalWagers(c)
        \/ clickOpenFinalAnswers(c)
        \/ clickToggleRevealFinalAnswer(c)
        \/ \E out \in GenerateOutputs : generateGame(c, out)

NextFlags == HostFlags \/ PatchStep \/ subscribeRoomHost

SpecFlags == InitFlags /\ [][NextFlags]_vars

----------------------------------------------------------------------------
(* SpecCreate: no room yet.  Rooms are created under the one room id, with  *)
(* any secret and title; players join, the host of the link reveals and     *)
(* advances, and the host's page is refreshed at any time.                  *)

\* what is typed as the title: nothing, a title, a title with a blank in front
Titles == { << >>, <<"t">>, <<" ", "t">> }

InitCreate ==
    /\ room = NoRoom
    /\ players = [p \in Players |-> NoPlayer]
    /\ subs = [id \in SubIds |-> NoSub]
    /\ wagers = [p \in Players |-> NoWager]
    /\ finalAnswers = [p \in Players |-> NoFinal]
    /\ calls = [c \in Slots |-> IdleCall]
    /\ playerView = NoRoom
    /\ hostView = NoRoom
    /\ playerPage = NoPage
    /\ hostPage = NoHostPage
    /\ start = Ledger([p \in Players |-> NoWagerInput])
    /\ nWrites = 0
    /\ nCalls = 0

Create == \E secret \in Secrets, title \in Titles : createRoom(secret, title)

HostCreate == \E c \in Slots : clickReveal(c) \/ clickNext(c)

PlayerCreate == \E p \in SpecPlayers : joinAsPlayer(p)

NextCreate == Create \/ HostCreate \/ PatchStep \/ PlayerCreate \/ subscribeRoomHost

SpecCreate == InitCreate /\ [][NextCreate]_vars

----------------------------------------------------------------------------
(* SpecWrites: a fresh room in which the two players join, answer the first *)
(* question and the sudden death, wager and send final answers, in any      *)
(* order, at most MaxWrites writes in all.                                  *)

\* the question indices the players answer in SpecWrites
AnswerIndices == {0, SuddenDeathIndex}

PlayerWrites ==
    \E p \in SpecPlayers :
        \/ joinAsPlayer(p)
        \/ \E q \in AnswerIndices, text \in AnswerInputs : submitAnswer(p, q, text)
        \/ \E h \in SpecWagers : submitWager(p, h)
        \/ \E text \in AnswerInputs : submitFinalAnswer(p, text)

SpecWrites == Init /\ [][PlayerWrites]_vars

----------------------------------------------------------------------------
(* Properties *)

\* the step is a step of call c itself (its position changes)
OwnStep(c) == calls'[c].pc # calls[c].pc

BothDone == \A c \in Slots : calls[c].pc = "done"

\* one of the two calls had its commit refused and ran again
Retried == \E c \in Slots : calls[c].attempt > 1

\* SpecJudge began with two judgeSubmission(sub, true) calls on the same submission
SameSubRace ==
    /\ \A c \in Slots : start.calls[c].op = "judgeSubmission" /\ start.calls[c].correct
    /\ start.calls[1].sub = start.calls[2].sub

\* C1: two concurrent judgeSubmission(sub, true) calls on one unjudged submission:
\* when both have finished, the player's score is exactly one higher than before
\* and the submission is judged correct with pointsDelta 1.
C1_ExactlyOnePoint ==
    (SameSubRace /\ BothDone) =>
        LET id == start.calls[1].sub
        IN  /\ start.subs[id].judged = "null"
            /\ players[id[2]].score = start.players[id[2]].score + 1
            /\ subs[id].judged = "true"
            /\ subs[id].pointsDelta = 1

C1_Witness == SameSubRace /\ BothDone /\ Retried

\* C2: a judged Submission or FinalAnswer never changes again: no step changes the
\* judged, pointsDelta or answer of a record whose judged is not null.
C2_JudgedIsFinal ==
    [][ /\ \A id \in SubIds : subs[id].judged # "null" => subs'[id] = subs[id]
        /\ \A p \in Players :
              finalAnswers[p].judged # "null" => finalAnswers'[p] = finalAnswers[p] ]_vars

RECURSIVE SumSubDeltas(_, _)
SumSubDeltas(S, p) ==
    IF S = {} THEN 0
    ELSE LET id == CHOOSE x \in S : TRUE
         IN  (IF id[2] = p /\ subs[id].exists THEN subs[id].pointsDelta ELSE 0)
             + SumSubDeltas(S \ {id}, p)

\* C3: every player's score equals the sum of pointsDelta over the player's
\* Submission records and FinalAnswer record.
C3_ScoreIsSumOfDeltas ==
    \A p \in Players :
        players[p].exists =>
            players[p].score = SumSubDeltas(SubIds, p) + finalAnswers[p].pointsDelta

\* C4: a judgment writes the record and the score together: whenever a step marks
\* a record judged with a non-zero pointsDelta, the same step adds that delta to
\* the score of the record's player, who exists.
C4_JudgmentAndScoreTogether ==
    [][ /\ \A id \in SubIds :
              (subs[id].judged = "null" /\ subs'[id].judged # "null"
                 /\ subs'[id].pointsDelta # 0)
              => /\ players[id[2]].exists
                 /\ players'[id[2]].score = players[id[2]].score + subs'[id].pointsDelta
        /\ \A p \in Players :
              (finalAnswers[p].judged = "null" /\ finalAnswers'[p].judged # "null"
                 /\ finalAnswers'[p].pointsDelta # 0)
              => /\ players[p].exists
                 /\ players'[p].score = players[p].score + finalAnswers'[p].pointsDelta
      ]_vars

\* floor of the wager the player declared, clamped to 0 .. s
ClampedWager(p, s) ==
    LET f == start.declared[p] \div 2
    IN  IF f < 0 THEN 0 ELSE IF f > s THEN s ELSE f

\* C5: the step that judges a final answer applies +w when correct and -w when
\* incorrect, w being the declared wager floored and clamped to 0 .. s, and s the
\* player's score at that step; so the delta never exceeds s in magnitude.
C5_FinalDeltaClampedAtJudgment ==
    [][ \A p \in Players :
          (finalAnswers[p].judged = "null" /\ finalAnswers'[p].judged # "null") =>
             LET s == players[p].score
                 w == ClampedWager(p, s)
                 d == finalAnswers'[p].pointsDelta
             IN  /\ \E c \in Slots :
                       /\ calls[c].op = "judgeFinal" /\ calls[c].player = p
                       /\ OwnStep(c)
                       /\ finalAnswers'[p].judged = JudgedOf(calls[c].correct)
                       /\ d = IF calls[c].correct THEN w ELSE 0 - w
                 /\ players'[p].score = s + d
                 /\ d <= s /\ 0 - d <= s ]_vars

\* score 5, wager 9999, judged correct: delta +5, new score 10
C5_Witness ==
    /\ start.players["p1"].score = 5
    /\ start.declared["p1"] = 2 * WagerCap
    /\ finalAnswers["p1"].judged = "true"
    /\ finalAnswers["p1"].pointsDelta = 5
    /\ players["p1"].score = 10

\* C6: every player's score is a non-negative integer in every reachable state.
C6_ScoreNonNegative == \A p \in Players : players[p].score \in Nat

\* a final answer was judged incorrect and its wager taken from a positive score
C6_Witness ==
    \E p \in Players :
        /\ finalAnswers[p].judged = "false"
        /\ finalAnswers[p].pointsDelta < 0
        /\ players[p].score = 0

\* the target the call is about to read, or has read, is already judged
FoundJudged(c) ==
    \/ /\ calls[c].pc = "getTarget"
       /\ calls[c].op = "judgeSubmission"
       /\ subs[calls[c].sub].exists /\ subs[calls[c].sub].judged # "null"
    \/ /\ calls[c].pc = "getTarget"
       /\ calls[c].op = "judgeFinal"
       /\ finalAnswers[calls[c].player].exists
       /\ finalAnswers[calls[c].player].judged # "null"
    \/ /\ calls[c].pc = "commit"
       /\ calls[c].op = "judgeSubmission" /\ calls[c].rdSub.judged # "null"
    \/ /\ calls[c].pc = "commit"
       /\ calls[c].op = "judgeFinal" /\ calls[c].rdAns.judged # "null"

\* C7: a judgeSubmission or judgeFinal call that finds its target already judged
\* writes nothing and ends without an error, whatever verdict it was given.
C7_RejudgeIsNoop ==
    [][ \A c \in Slots :
          (FoundJudged(c) /\ OwnStep(c)) =>
             /\ store' = store
             /\ calls'[c].pc \in {"commit", "done", "getRoom"}
             /\ calls'[c].pc = "done" => calls'[c].result = "ok" ]_vars

\* a call with the opposite verdict has read an already judged submission
C7_Witness ==
    \E c \in Slots :
        /\ calls[c].op = "judgeSubmission" /\ calls[c].pc = "commit"
        /\ calls[c].rdSub.judged = "true" /\ ~calls[c].correct
        /\ players[calls[c].rdSub.playerId].score = 1

\* running call alone, start to end, on the ledger L
RunAlone(L, call) ==
    IF call.op = "judgeSubmission"
    THEN LET d == IF call.correct THEN 1 ELSE 0
             pid == call.sub[2]
         IN  IF L.subs[call.sub].judged # "null" THEN L
             ELSE [L EXCEPT !.players[pid].score = @ + d,
                            !.subs[call.sub].judged = JudgedOf(call.correct),
                            !.subs[call.sub].pointsDelta = d]
    ELSE LET s == L.players[call.player].score
             w == ClampedWager(call.player, s)
             d == IF call.correct THEN w ELSE 0 - w
         IN  IF L.finalAnswers[call.player].judged # "null" THEN L
             ELSE [L EXCEPT !.players[call.player].score = s + d,
                            !.finalAnswers[call.player].judged = JudgedOf(call.correct),
                            !.finalAnswers[call.player].pointsDelta = d]

Books(L) == [players |-> L.players, subs |-> L.subs, finalAnswers |-> L.finalAnswers]
Now == [players |-> players, subs |-> subs, finalAnswers |-> finalAnswers]

TargetOf(call) ==
    IF call.op = "judgeSubmission" THEN <<"sub", call.sub>> ELSE <<"final", call.player>>
PlayerOf(call) == IF call.op = "judgeSubmission" THEN call.sub[2] ELSE call.player

\* SpecJudge began with two judgments for different targets of one player
TwoTargetsOnePlayer ==
    /\ PlayerOf(start.calls[1]) = PlayerOf(start.calls[2])
    /\ start.calls[1].op # start.calls[2].op
       \/ (start.calls[1].op = "judgeSubmission" /\ start.calls[1].sub # start.calls[2].sub)

\* C8: two concurrent judgments for different targets of the same player lose no
\* update: when both have finished, scores and records are those of running the
\* two judgments one after the other, in one of the two orders.
C8_SerialOutcome ==
    (TwoTargetsOnePlayer /\ BothDone) =>
        \/ Now = Books(RunAlone(RunAlone(start, start.calls[1]), start.calls[2]))
        \/ Now = Books(RunAlone(RunAlone(start, start.calls[2]), start.calls[1]))

\* a submission and the final answer of p1 judged at once, one commit refused,
\* and the order of the two judgments decides the wager that counts
C8_Witness ==
    /\ TwoTargetsOnePlayer /\ BothDone /\ Retried
    /\ start.calls[1].op = "judgeSubmission" /\ start.calls[1].correct
    /\ start.calls[2].op = "judgeFinal"
    /\ finalAnswers["p1"].pointsDelta > start.players["p1"].score

\* the call reads the room at this step, with a secret that is not the room's
WrongSecretAtCheck(c) ==
    /\ calls[c].pc \in {"getRoom", "getDoc"}
    /\ OwnStep(c)
    /\ room.exists
    /\ calls[c].secret # room.hostSecret

\* C9: judgeSubmission, judgeFinal and patchRoomIfHost given a secret other than
\* room.hostSecret end with 'Not host' and change nothing in the store; no other
\* case ends with 'Not host'.
C9_NotHostRejected ==
    [][ \A c \in Slots :
          /\ WrongSecretAtCheck(c)
                => /\ calls'[c].pc = "done"
                   /\ calls'[c].result = "Not host"
                   /\ store' = store
          /\ (OwnStep(c) /\ calls'[c].result = "Not host") => WrongSecretAtCheck(c) ]_vars

\* a patch and a judgment have both been refused
C9_Witness ==
    /\ calls[1].op = "patchRoomIfHost" /\ calls[1].result = "Not host"
    /\ calls[2].op \in {"judgeSubmission", "judgeFinal"} /\ calls[2].result = "Not host"
    /\ room = start.room

\* C10: what a player's page receives from subscribeRoom never holds the room's
\* hostSecret.
C10_PlayerNeverHoldsSecret ==
    ~(playerView.exists /\ playerView.hostSecret = room.hostSecret)

\* C11: joinAsPlayer for a player who already exists leaves the score as it is:
\* an existing player's score changes only in the committing step of a judgment.
C11_RejoinKeepsScore ==
    [][ \A p \in Players :
          (players[p].exists /\ players'[p].score # players[p].score)
             => \E c \in Slots : calls[c].pc = "commit" /\ OwnStep(c) ]_vars

\* a player's write is applied in this step
PlayerWrote == nWrites' # nWrites

\* C12: an answer write for a main question takes effect only while the stored
\* room has acceptingAnswers = true.
C12_AnswerOnlyWhileAccepting ==
    [][ \A id \in SubIds :
          (PlayerWrote /\ id[1] # SuddenDeathIndex /\ subs'[id] # subs[id])
             => room.acceptingAnswers ]_vars

\* C13: a wager write takes effect only while the stored final.wagersOpen is true
\* and a final answer write only while the stored final.answersOpen is true.
C13_FinalWritesOnlyWhileOpen ==
    [][ \A p \in Players :
          /\ (PlayerWrote /\ wagers'[p] # wagers[p]) => room.final.wagersOpen
          /\ (PlayerWrote /\ finalAnswers'[p] # finalAnswers[p]) => room.final.answersOpen
      ]_vars

\* C14: submitWager stores the declared non-negative integer amount unchanged: the
\* wager written is the amount in the wager field.
C14_WagerStoredAsDeclared ==
    [][ (PlayerWrote /\ wagers'[Me] # wagers[Me]
           /\ playerPage.wager >= 0 /\ playerPage.wager % 2 = 0)
          => 2 * wagers'[Me].wager = playerPage.wager ]_vars

\* call c writes its patch to the room in this step
PatchApplied(c) ==
    /\ calls[c].op = "patchRoomIfHost"
    /\ calls[c].pc = "update"
    /\ OwnStep(c)
    /\ calls'[c].result = "ok"

\* C16: a reveal never takes effect while the stored currentIndex is 9.
C16_NoRevealAtFinalIndex ==
    [][ \A c \in Slots :
          (PatchApplied(c) /\ calls[c].patch = RevealPatch)
             => room.currentIndex < FinalIndex ]_vars

\* C17: openFinalWagers takes effect only when the stored currentIndex is 9, and
\* then sets status = final_wager, revealed = true, acceptingAnswers = false and
\* final = {wagersOpen: true, answersOpen: false, revealedAnswer: false}.
C17_OpenFinalWagersOnlyAtFinalIndex ==
    [][ \A c \in Slots :
          (PatchApplied(c) /\ "status" \in DOMAIN calls[c].patch
             /\ calls[c].patch.status = "final_wager")
          => /\ room.currentIndex = FinalIndex
             /\ room'.status = "final_wager"
             /\ room'.revealed /\ ~room'.acceptingAnswers
             /\ room'.final = [wagersOpen |-> TRUE, answersOpen |-> FALSE,
                               revealedAnswer |-> FALSE] ]_vars

\* C18: currentIndex stays within 0..9 in every reachable state.
C18_CurrentIndexInRange == room.currentIndex \in 0 .. FinalIndex

\* the room went from 8 to 9, and a second advance to 9, issued from the host's
\* view that still shows 8, is about to be written
C18_Witness ==
    /\ start.room.currentIndex = FinalIndex - 1
    /\ hostView.currentIndex = FinalIndex - 1
    /\ room.currentIndex = FinalIndex
    /\ calls[1].pc = "done" /\ calls[1].result = "ok"
    /\ calls[2].pc = "update" /\ calls[2].patch = AdvancePatch(FinalIndex)

\* the patch of call c is an advance: it sets currentIndex and not the questions
IsAdvance(c) ==
    /\ "currentIndex" \in DOMAIN calls[c].patch
    /\ "questions" \notin DOMAIN calls[c].patch

\* C20: every advance writes revealed = false and acceptingAnswers = false with
\* the new currentIndex and leaves status, questions and final unchanged.
C20_AdvanceHidesAndKeepsPhase ==
    [][ \A c \in Slots :
          (PatchApplied(c) /\ IsAdvance(c))
          => /\ room'.currentIndex = calls[c].patch.currentIndex
             /\ ~room'.revealed /\ ~room'.acceptingAnswers
             /\ room'.status = room.status
             /\ room'.questions = room.questions
             /\ room'.final = room.final
             /\ room'.hostSecret = room.hostSecret ]_vars

\* a question was revealed at index 0 and an advance then hid the next one
C20_Witness ==
    /\ start.room.currentIndex = 0
    /\ room.status = "question"
    /\ room.currentIndex = 1
    /\ ~room.revealed /\ ~room.acceptingAnswers
    /\ \A c \in Slots : calls[c].pc \in {"idle", "done"}

\* call c ends in this step with the error err and nothing in the store changes
FailsWith(c, err) ==
    /\ calls'[c].pc = "done"
    /\ calls'[c].result = err
    /\ store' = store

\* C15: judgeSubmission fails when the room or the submission does not exist and
\* judgeFinal when the room or the final answer does not exist: the call reports
\* a not-found error and changes no score and no record.
C15_NotFoundRejected ==
    [][ \A c \in Slots :
          /\ (calls[c].pc = "getRoom" /\ OwnStep(c) /\ ~room.exists)
                => FailsWith(c, "Room not found")
          /\ (calls[c].pc = "getTarget" /\ OwnStep(c) /\ calls[c].op = "judgeSubmission"
                /\ ~subs[calls[c].sub].exists)
                => FailsWith(c, "Submission not found")
          /\ (calls[c].pc = "getTarget" /\ OwnStep(c) /\ calls[c].op = "judgeFinal"
                /\ ~finalAnswers[calls[c].player].exists)
                => FailsWith(c, "Final answer not found") ]_vars

\* a judgeSubmission and a judgeFinal have both failed on a missing target, and
\* the books are as they were
C15_Witness ==
    /\ calls[1].op = "judgeSubmission" /\ calls[1].result = "Submission not found"
    /\ calls[2].op = "judgeFinal" /\ calls[2].result = "Final answer not found"
    /\ Now = Books(start)

\* C19: room.questions holds exactly 10 slots in every reachable state.
C19_TenQuestionSlots == room.exists => DOMAIN room.questions = 1 .. NumSlots

\* a generation failed, another call went through, and the questions are no longer
\* the ones the room was created with
C19_Witness ==
    /\ calls[1].result = "Unsupported field value: undefined"
    /\ calls[2].result = "ok"
    /\ room.questions # start.room.questions
    /\ Len(room.questions) = NumSlots

\* call c judges a final answer or a submission to one of the ten questions
MainJudgment(c) ==
    \/ calls[c].op = "judgeFinal"
    \/ calls[c].op = "judgeSubmission" /\ calls[c].sub[1] \in MainIndices

\* C21: once the room's status is "ended", no step of a judgeFinal or of a
\* judgeSubmission for one of the questions 0..9 changes a score, a submission or
\* a final answer
C21_EndedFreezesMainJudgments ==
    [][room.status = "ended" =>
          \A c \in Slots :
              MainJudgment(c) /\ OwnStep(c) =>
                  /\ players' = players
                  /\ subs' = subs
                  /\ finalAnswers' = finalAnswers]_vars

\* the patch of call c is the one startSuddenDeath sends
IsStartSuddenDeath(c) ==
    /\ "suddenDeath" \in DOMAIN calls[c].patch
    /\ calls[c].patch =
          StartSuddenDeathPatch(calls[c].patch.suddenDeath.question,
                                calls[c].patch.suddenDeath.eligiblePlayerIds)

\* C22: a startSuddenDeath takes effect only when every final answer in the store
\* is judged and at least two players in the store share the highest score, and
\* it leaves suddenDeath active, not revealed, not accepting answers, with
\* eligiblePlayerIds the set of the players who hold the highest score in the
\* store at that moment.
C22_StartOnlyOnJudgedTie ==
    [][ \A c \in Slots :
          (PatchApplied(c) /\ IsStartSuddenDeath(c))
          => /\ allJudged(finalAnswers, players)
             /\ Cardinality(leadersOf(players)) >= 2
             /\ room'.suddenDeath.active
             /\ ~room'.suddenDeath.revealed /\ ~room'.suddenDeath.acceptingAnswers
             /\ room'.suddenDeath.eligiblePlayerIds = leadersOf(players) ]_vars
C24_FirstJudgedCorrectWins ==
    [][suddenDeathWinner # "" => suddenDeathWinner' = suddenDeathWinner]_vars
\* the players whose sudden-death submission is judged correct in the store
JudgedCorrectSudden ==
    {p \in Players : subs[<<SuddenDeathIndex, p>>].exists
                      /\ subs[<<SuddenDeathIndex, p>>].judged = "true"}

\* C25: at most one submission of the sudden death is judged correct, in every
\* reachable state.
C25_OneCorrectPerSuddenDeath == Cardinality(JudgedCorrectSudden) <= 1
\* the patch of call c is the one of Close Answers (or of the timer) or of Hide
IsCloseOrHide(c) ==
    /\ calls[c].op = "patchRoomIfHost"
    /\ calls[c].patch \in {CloseAnswersPatch, HidePatch}

\* the room already holds every value of the patch
AlreadyApplied(patch) == \A f \in DOMAIN patch : room[f] = patch[f]

\* C26: closeAnswers and hide are idempotent: a close or a hide never ends with an
\* error, and one that is written to a room which already holds its values, after
\* an earlier click or the timer, leaves the room as it is.
C26_CloseAndHideIdempotent ==
    [][ \A c \in Slots :
          (IsCloseOrHide(c) /\ OwnStep(c))
          => /\ calls'[c].pc = "done" => calls'[c].result = "ok"
             /\ (PatchApplied(c) /\ AlreadyApplied(calls[c].patch)) => room' = room ]_vars

\* the answers were open when the behaviour began, two closes have been written
\* one after the other, and the question is still revealed with its answers closed
C26_Witness ==
    /\ start.room.acceptingAnswers
    /\ nCalls = 2
    /\ \A c \in Slots : calls[c].pc = "done" /\ calls[c].result = "ok"
    /\ room = ApplyPatch(start.room, CloseAnswersPatch)
\* the step is a createRoom
Created == \E secret \in Secrets, title \in Titles : createRoom(secret, title)

\* what the claim says of every field but the question texts
CreatedInLobby(r) ==
    /\ r.exists
    /\ r.status = "lobby"
    /\ r.currentIndex = 0
    /\ Len(r.questions) = NumSlots
    /\ ~r.revealed /\ ~r.acceptingAnswers
    /\ r.final = [wagersOpen |-> FALSE, answersOpen |-> FALSE, revealedAnswer |-> FALSE]

\* C27 as stated: createRoom leaves status = lobby, currentIndex = 0, exactly ten
\* question slots each with an empty question text, revealed = false,
\* acceptingAnswers = false and the three final flags false.
C27_CreateRoomAllSlotsEmpty ==
    [][ Created => /\ CreatedInLobby(room')
                   /\ \A i \in DOMAIN room'.questions :
                         room'.questions[i].question = << >> ]_vars

\* C27 amended: createRoom leaves status = lobby, currentIndex = 0, exactly ten
\* question slots, the first nine with an empty question text and the tenth with
\* the text "Final Jeopardy (host will set)", every answer and category empty,
\* revealed = false, acceptingAnswers = false and the three final flags false.
C27_CreateRoomTenSlots ==
    [][ Created => /\ CreatedInLobby(room')
                   /\ \A i \in DOMAIN room'.questions :
                         /\ room'.questions[i].question =
                               (IF i = NumSlots THEN <<"Final Jeopardy (host will set)">>
                                ELSE << >>)
                         /\ room'.questions[i].answer = << >>
                         /\ room'.questions[i].category = << >> ]_vars

\* a room was created with a typed title where there was none
C27_Witness ==
    /\ ~start.room.exists
    /\ room.exists
    /\ room.title = <<"t">>
    /\ Len(room.questions) = NumSlots

\* the submissions of the store that carry question index q and player p
Records(ss, q, p) ==
    {id \in SubIds : ss[id].exists /\ ss[id].questionIndex = q /\ ss[id].playerId = p}

\* C28: after every step there is at most one submission for a question index and
\* a player, and a submitAnswer for a pair leaves exactly one, holding the text
\* just sent.
C28_OneSubmissionPerPair ==
    [][ subs' # subs =>
          /\ \A q \in AnswerIndices, p \in SpecPlayers :
                Cardinality(Records(subs', q, p)) <= 1
          /\ \A p \in SpecPlayers, q \in AnswerIndices, text \in AnswerInputs :
                submitAnswer(p, q, text)
                => \E id \in SubIds :
                      /\ Records(subs', q, p) = {id}
                      /\ subs'[id].answer = safeTrim(text, AnswerMax) ]_vars

\* p1 alone has answered question 0, twice, and the second text is the one stored
C28_Witness ==
    /\ Records(subs, 0, "p1") = {<<0, "p1">>}
    /\ subs[<<0, "p1">>].createdAt = 2
    /\ subs[<<0, "p1">>].answer = <<"b">>
    /\ \A id \in SubIds \ {<<0, "p1">>} : ~subs[id].exists

\* a step that is a player's write leaves the room, the scores and every record
\* but `mine` of that player as they were
OnlyOwnRecord(p, mine) ==
    /\ room' = room
    /\ players' = players
    /\ \A id \in SubIds : (mine # "sub" \/ id[2] # p) => subs'[id] = subs[id]
    /\ \A o \in Players : (mine # "wager" \/ o # p) => wagers'[o] = wagers[o]
    /\ \A o \in Players : (mine # "final" \/ o # p) => finalAnswers'[o] = finalAnswers[o]

\* C29: a submitAnswer, submitWager or submitFinalAnswer of a player changes that
\* player's record for that key and nothing else (no other player's record, no
\* score, no field of the room), and the record then holds what was just sent.
C29_WritesTouchOwnRecordOnly ==
    [][ \A p \in SpecPlayers :
          /\ \A q \in AnswerIndices, text \in AnswerInputs :
                submitAnswer(p, q, text)
                => /\ OnlyOwnRecord(p, "sub")
                   /\ \A id \in SubIds : id[1] # q => subs'[id] = subs[id]
                   /\ subs'[<<q, p>>].answer = safeTrim(text, AnswerMax)
          /\ \A h \in SpecWagers :
                submitWager(p, h)
                => /\ OnlyOwnRecord(p, "wager")
                   /\ wagers'[p] = submitWagerDoc(h)
          /\ \A text \in AnswerInputs :
                submitFinalAnswer(p, text)
                => /\ OnlyOwnRecord(p, "final")
                   /\ finalAnswers'[p].answer = safeTrim(text, AnswerMax) ]_vars

\* both players have sent a final answer, p2 last, and each record holds its own
C29_Witness ==
    /\ nWrites >= 2
    /\ finalAnswers["p1"].exists /\ finalAnswers["p1"].answer = <<"a">>
    /\ finalAnswers["p2"].exists /\ finalAnswers["p2"].answer = <<"b">>
\* exactly ten items, each with a question and an answer that are not blank
TenAnswered(out) ==
    /\ out.isArray
    /\ Len(out.questions) = NumSlots
    /\ \A i \in DOMAIN out.questions :
          Trim(out.questions[i].question) # << >> /\ Trim(out.questions[i].answer) # << >>

\* every item has a category that is not blank
AllCategorised(out) ==
    \A i \in DOMAIN out.questions : Trim(out.questions[i].category) # << >>

\* a generation that was refused writes nothing: its updateDoc step leaves the room
\* as it is and ends with an error
RefusedLeavesRoom ==
    \A c \in Slots :
        (calls[c].op = "patchRoomIfHost" /\ calls[c].pc = "update" /\ OwnStep(c)
           /\ HasUndefined(calls[c].patch))
        => room' = room /\ calls'[c].result # "ok"

\* C30 as stated: a bulk generation response is accepted exactly when it holds ten
\* items, each with a non-blank question, answer and category; any other response
\* is refused and leaves the room's questions, index, status and flags unchanged.
C30_AcceptedOnlyWithCategories ==
    [][ /\ \A c \in Slots, out \in GenerateOutputs :
              generateGame(c, out)
              => (~HasUndefined(calls'[c].patch) <=> (TenAnswered(out) /\ AllCategorised(out)))
        /\ RefusedLeavesRoom ]_vars

\* C30 amended: a bulk generation response is accepted exactly when it holds ten
\* items, each with a non-blank question and answer, a blank or missing category
\* being stored as "General"; any other response is refused and leaves the room's
\* questions, index, status and flags unchanged.
C30_AcceptedOnlyTenAnswered ==
    [][ /\ \A c \in Slots, out \in GenerateOutputs :
              generateGame(c, out)
              => /\ ~HasUndefined(calls'[c].patch) <=> TenAnswered(out)
                 /\ TenAnswered(out)
                    => \A i \in 1 .. NumSlots :
                          calls'[c].patch.questions[i].category =
                             (IF Trim(out.questions[i].category) = << >>
                              THEN <<"General">> ELSE Trim(out.questions[i].category))
        /\ RefusedLeavesRoom ]_vars

\* one generation was refused and wrote nothing, another one without categories
\* was accepted and its questions are stored under "General"
C30_Witness ==
    /\ calls[1].result = "Unsupported field value: undefined"
    /\ calls[2].result = "ok"
    /\ Len(room.questions) = NumSlots
    /\ room.questions[1].question = <<"q">>
    /\ room.questions[1].category = <<"General">>

\* C31: after a reveal that stamps revealedAt, when the host's page keeps running
\* and its writes are carried out, acceptingAnswers becomes false without any
\* action of the host: the timer closes the answers.
C31_TimerClosesAnswers ==
    (room.revealed /\ room.acceptingAnswers /\ room.revealedAt # 0) ~> ~room.acceptingAnswers

\* the thirty seconds of the reveal have passed on the host's page, a write of the
\* timer was carried out and the answers are closed on the revealed question
C31_Witness ==
    /\ room.revealed /\ ~room.acceptingAnswers
    /\ hostPage.now - room.revealedAt >= TimerSeconds
    /\ \E c \in Slots : calls[c].op = "patchRoomIfHost" /\ calls[c].result = "ok"

\* C32: a closeAnswers write of the timer never turns acceptingAnswers off while
\* the thirty seconds of the reveal the room then holds have not passed.  (In
\* SpecReveal the timer is the only sender of that patch.)
C32_TimerNeverClosesLaterReveal ==
    [][\A c \in Slots :
          (calls[c].op = "patchRoomIfHost" /\ calls[c].pc = "update" /\ OwnStep(c)
             /\ calls[c].patch = CloseAnswersPatch
             /\ room.acceptingAnswers /\ ~room'.acceptingAnswers)
          => hostPage.now - room.revealedAt >= TimerSeconds]_vars

\* C33: once acceptingAnswers is false in the final_answer phase, final.answersOpen
\* is false as well, and no player's final answer is written any more.
C33_ClosedFinalStaysClosed ==
    /\ []((room.status = "final_answer" /\ ~room.acceptingAnswers) => ~room.final.answersOpen)
    /\ [][(PlayerWrote /\ finalAnswers' # finalAnswers)
            => ~(room.status = "final_answer" /\ ~room.acceptingAnswers)]_vars

\* C34: edits of different question slots both survive: once the typed text is
\* stored in the first slot, or the replacement in the second slot, no later write
\* (which in SpecEdits either targets the other slot or writes the same text) takes
\* it away.
C34_EditsOfOtherSlotsSurvive ==
    [][ /\ room.questions[1].question = EditedText => room'.questions[1].question = EditedText
        /\ room.questions[2].question = ReplacedText
              => room'.questions[2].question = ReplacedText ]_vars

\* C35: the hostSecret of a room never changes once the room is created: neither a
\* later createRoom under the same room code nor a patchRoomIfHost replaces it.
C35_HostSecretNeverChanges ==
    [][room.exists => room'.exists /\ room'.hostSecret = room.hostSecret]_vars

\* C36: no player is reported as the winner of a sudden death before a submission
\* is judged correct in that round.  In SpecNewGame nothing is judged, so no winner
\* is reported again once the winner of the earlier game is no longer shown.
C36_NoWinnerBeforeJudgment ==
    [][suddenDeathWinner = "" => suddenDeathWinner' = ""]_vars

\* C37: final.wagersOpen and final.answersOpen are never both true, whatever the
\* host opens, toggles or generates and however old the view it acts on.
C37_WagersAndAnswersNeverBothOpen == ~(room.final.wagersOpen /\ room.final.answersOpen)

\* the answers were opened, and a toggle of the answer key computed from the older
\* view, in which the wagers were open, was written after that
C37_Witness ==
    /\ room.status = "final_answer"
    /\ room.final.wagersOpen /\ room.final.revealedAnswer
    /\ ~room.final.answersOpen

\* C38: whenever status is final_wager or final_answer, currentIndex is 9, also after
\* Prev, Next or a jump.
C38_FinalPhaseOnlyAtFinalIndex ==
    room.status \in {"final_wager", "final_answer"} => room.currentIndex = FinalIndex

\* C39: in every reachable state acceptingAnswers = true implies revealed = true.
C39_AcceptingImpliesRevealed == room.acceptingAnswers => room.revealed

\* C40: every submission record has pointsDelta = 0 while judged is null, 1 when
\* judged is true and 0 when judged is false, in every reachable state.
C40_PointsDeltaFollowsJudged ==
    \A id \in SubIds :
        subs[id].exists => subs[id].pointsDelta = (IF subs[id].judged = "true" THEN 1 ELSE 0)

\* a submission was judged correct and then sent again: it is unjudged with no
\* points while its player holds the point
C40_Witness ==
    \E p \in SpecPlayers :
        /\ subs[<<0, p>>].exists /\ subs[<<0, p>>].judged = "null"
        /\ subs[<<0, p>>].pointsDelta = 0
        /\ players[p].score = 1
====
